---- MODULE Spec2Model ----
(***************************************************************************)
(* TrendRadar: the classification, scoping and weighted-ranking engine of  *)
(* src/src/trendradar/core/analyzer.py, modelled as a state machine whose  *)
(* actions are the calls of its public functions.                          *)
(*                                                                         *)
(* Encodings.  A title or a word is a sequence of characters.  A time      *)
(* string "HH-MM" is a natural number, 0 standing for the empty string     *)
(* (Python compares the strings lexicographically, which for the fixed     *)
(* format is the order of the numbers).  A weight factor such as 0.4 is    *)
(* kept in tenths (4); a weight is kept as an exact fraction, see          *)
(* WeightNum.  A Python dict that the code iterates over is a sequence of  *)
(* [key, val] records with distinct keys, in insertion order.  None and    *)
(* the empty dict/list are both the empty sequence where the code only     *)
(* tests truthiness.                                                       *)
(***************************************************************************)
EXTENDS Integers, Sequences, FiniteSets, TLC

\* ------------------------------------------------------------------------
\* constants.py
\* ------------------------------------------------------------------------
MAX_RANK_SCORE == 10
BASE_RANK_SCORE == 11
FREQUENCY_MULTIPLIER == 10
HOTNESS_MULTIPLIER == 100
\* 0.4, 0.3, 0.3 in tenths
DEFAULT_RANK_WEIGHT == 4
DEFAULT_FREQUENCY_WEIGHT == 3
DEFAULT_HOTNESS_WEIGHT == 3
DEFAULT_RANK == 99
DEFAULT_RANK_THRESHOLD == 3
\* the "999" fallbacks of the sort keys and of the position lookup
NO_RANK_KEY == 999

\* ------------------------------------------------------------------------
\* generic helpers (Python builtins)
\* ------------------------------------------------------------------------
Min2(a, b) == IF a <= b THEN a ELSE b

Range(s) == {s[i] : i \in 1..Len(s)}

RECURSIVE SumSeq(_)
SumSeq(s) == IF s = <<>> THEN 0 ELSE Head(s) + SumSeq(Tail(s))

RECURSIVE MinSeq(_)
MinSeq(s) == IF Len(s) = 1 THEN s[1] ELSE Min2(Head(s), MinSeq(Tail(s)))

\* s[:n] for n > 0
Prefix(s, n) == SubSeq(s, 1, Min2(n, Len(s)))

\* dict helpers: d is a sequence of [key, val]
Keys(d) == {d[i].key : i \in 1..Len(d)}
HasKey(d, k) == k \in Keys(d)
Get(d, k) == d[CHOOSE i \in 1..Len(d) : d[i].key = k].val
\* len(d[k]) summed over the dict's values
RECURSIVE SumLens(_)
SumLens(d) == IF d = <<>> THEN 0 ELSE Len(Head(d).val) + SumLens(Tail(d))

\* str.lower() on the model's alphabet
LowerChar(c) == IF c = "A" THEN "a" ELSE IF c = "B" THEN "b" ELSE c
Lower(s) == [i \in 1..Len(s) |-> LowerChar(s[i])]

\* needle in hay (substring)
Contains(hay, needle) ==
    \E i \in 0..(Len(hay) - Len(needle)) :
        \A j \in 1..Len(needle) : hay[i + j] = needle[j]

\* ------------------------------------------------------------------------
\* trendradar.core.frequency (not part of the sources at hand): the matcher
\* ------------------------------------------------------------------------
\* literal: case-insensitive substring; regex: the pattern searched in the
\* lower-cased title, the pattern itself not lower-cased.  A regex of the
\* model is a plain character sequence.
_word_matches(w, title_lower) ==
    IF w.is_regex THEN Contains(title_lower, w.word)
    ELSE Contains(title_lower, Lower(w.word))

AnyMatches(words, title_lower) ==
    \E i \in 1..Len(words) : _word_matches(words[i], title_lower)

AllMatch(words, title_lower) ==
    \A i \in 1..Len(words) : _word_matches(words[i], title_lower)

\* synthetic group keys: "全部新闻" (analyzer.py:407) and "全部 RSS" (:579)
ALL_NEWS == "ALL_NEWS"
ALL_RSS == "ALL_RSS"

IsSyntheticCatchAll(word_groups) ==
    /\ Len(word_groups) = 1
    /\ word_groups[1].group_key \in {ALL_NEWS, ALL_RSS}
    /\ word_groups[1].required = <<>>
    /\ word_groups[1].normal = <<>>

\* the condition of one group: required non-empty: all of them; else normal
\* non-empty: any of them; both empty: never
GroupCondition(group, title_lower) ==
    IF group.required # <<>> THEN AllMatch(group.required, title_lower)
    ELSE IF group.normal # <<>> THEN AnyMatches(group.normal, title_lower)
    ELSE FALSE

\* classify: 0 = rejected, otherwise the index of the first group that holds
Classify(title, word_groups, filter_words, global_filters) ==
    LET title_lower == Lower(title) IN
    IF AnyMatches(global_filters, title_lower) \/ AnyMatches(filter_words, title_lower)
    THEN 0
    ELSE IF word_groups = <<>> \/ IsSyntheticCatchAll(word_groups) THEN 1
    ELSE IF \E i \in 1..Len(word_groups) : GroupCondition(word_groups[i], title_lower)
    THEN CHOOSE i \in 1..Len(word_groups) :
            /\ GroupCondition(word_groups[i], title_lower)
            /\ \A j \in 1..(i - 1) : ~GroupCondition(word_groups[j], title_lower)
    ELSE 0

matches_word_groups(title, word_groups, filter_words, global_filters) ==
    Classify(title, word_groups, filter_words, global_filters) # 0

\* ------------------------------------------------------------------------
\* analyzer.py: calculate_news_weight
\* ------------------------------------------------------------------------
\* A weight is the exact fraction num/den, den > 0 (the code computes the same
\* quantity in floating point).
FracLess(a, b) == a.num * b.den < b.num * a.den
FracEq(a, b) == a.num * b.den = b.num * a.den

\* (mutant: the mean of the clamped ranks themselves)
RankWeightUnflipped(ranks) ==
    IF ranks = <<>> THEN [num |-> 0, den |-> 1]
    ELSE [num |-> SumSeq([i \in 1..Len(ranks) |-> Min2(ranks[i], MAX_RANK_SCORE)]),
          den |-> Len(ranks)]

\* sum(BASE_RANK_SCORE - min(rank, MAX_RANK_SCORE)) / len(ranks)
_calculate_rank_weight(ranks) ==
    IF ranks = <<>> THEN [num |-> 0, den |-> 1]
    ELSE [num |-> SumSeq([i \in 1..Len(ranks) |->
                              BASE_RANK_SCORE - Min2(ranks[i], MAX_RANK_SCORE)]),
          den |-> Len(ranks)]

\* (mutant: the count is not multiplied)
FrequencyUnscaled(count) == Min2(count, MAX_RANK_SCORE)

_calculate_frequency_weight(count) ==
    Min2(count, MAX_RANK_SCORE) * FREQUENCY_MULTIPLIER

_calculate_hotness_weight(ranks, rank_threshold) ==
    IF ranks = <<>> THEN [num |-> 0, den |-> 1]
    ELSE [num |-> Cardinality({i \in 1..Len(ranks) : ranks[i] <= rank_threshold})
                      * HOTNESS_MULTIPLIER,
          den |-> Len(ranks)]

\* title_data: [ranks, count]; weight_config in tenths; the result in units of
\* 1/den with den = 10 * len(ranks)
calculate_news_weight(title_data, rank_threshold, weight_config) ==
    LET ranks == title_data.ranks IN
    IF ranks = <<>> THEN [num |-> 0, den |-> 1]
    ELSE LET count == title_data.count
             rank_weight == _calculate_rank_weight(ranks)
             frequency_weight == _calculate_frequency_weight(count)
             hotness_weight == _calculate_hotness_weight(ranks, rank_threshold)
         IN [num |-> rank_weight.num * weight_config.RANK_WEIGHT
                       + frequency_weight * Len(ranks) * weight_config.FREQUENCY_WEIGHT
                       + hotness_weight.num * weight_config.HOTNESS_WEIGHT,
             den |-> 10 * Len(ranks)]

\* ------------------------------------------------------------------------
\* analyzer.py: WordFrequencyConfig and the scope selection
\* ------------------------------------------------------------------------
DefaultWeightConfig ==
    [RANK_WEIGHT |-> DEFAULT_RANK_WEIGHT,
     FREQUENCY_WEIGHT |-> DEFAULT_FREQUENCY_WEIGHT,
     HOTNESS_WEIGHT |-> DEFAULT_HOTNESS_WEIGHT]

SyntheticGroup(key) ==
    [required |-> <<>>, normal |-> <<>>, group_key |-> key,
     max_count |-> 0, display_name |-> ""]

\* (mutant: no synthetic group is put in place of an empty word_groups)
ConfigWithoutSyntheticGroup(args) ==
    [word_groups |-> args.word_groups,
     filter_words |-> IF args.word_groups # <<>> THEN args.filter_words ELSE <<>>,
     id_to_name |-> args.id_to_name,
     title_info |-> args.title_info,
     rank_threshold |-> args.rank_threshold,
     new_titles |-> args.new_titles,
     mode |-> args.mode,
     global_filters |-> args.global_filters,
     weight_config |-> IF args.weight_config = <<>> THEN DefaultWeightConfig
                       ELSE args.weight_config[1],
     max_news_per_keyword |-> args.max_news_per_keyword,
     sort_by_position_first |-> args.sort_by_position_first,
     is_first_today |-> IF args.is_first_crawl_func = <<>> THEN TRUE
                        ELSE args.is_first_crawl_func[1]]

\* (mutant: the filter words are kept when word_groups is empty)
ConfigKeepingFilterWords(args) ==
    [word_groups |-> IF args.word_groups # <<>> THEN args.word_groups
                     ELSE <<SyntheticGroup(ALL_NEWS)>>,
     filter_words |-> args.filter_words,
     id_to_name |-> args.id_to_name,
     title_info |-> args.title_info,
     rank_threshold |-> args.rank_threshold,
     new_titles |-> args.new_titles,
     mode |-> args.mode,
     global_filters |-> args.global_filters,
     weight_config |-> IF args.weight_config = <<>> THEN DefaultWeightConfig
                       ELSE args.weight_config[1],
     max_news_per_keyword |-> args.max_news_per_keyword,
     sort_by_position_first |-> args.sort_by_position_first,
     is_first_today |-> IF args.is_first_crawl_func = <<>> THEN TRUE
                        ELSE args.is_first_crawl_func[1]]

\* The config count_word_frequency builds from its arguments (lines 406-421)
\* followed by __post_init__ (lines 39-53).  An optional argument is <<>> for
\* None and <<v>> for a value.
WordFrequencyConfig(args) ==
    [word_groups |-> IF args.word_groups # <<>> THEN args.word_groups
                     ELSE <<SyntheticGroup(ALL_NEWS)>>,
     filter_words |-> IF args.word_groups # <<>> THEN args.filter_words ELSE <<>>,
     id_to_name |-> args.id_to_name,
     title_info |-> args.title_info,
     rank_threshold |-> args.rank_threshold,
     new_titles |-> args.new_titles,
     mode |-> args.mode,
     global_filters |-> args.global_filters,
     weight_config |-> IF args.weight_config = <<>> THEN DefaultWeightConfig
                       ELSE args.weight_config[1],
     max_news_per_keyword |-> args.max_news_per_keyword,
     sort_by_position_first |-> args.sort_by_position_first,
     is_first_today |-> IF args.is_first_crawl_func = <<>> THEN TRUE
                        ELSE args.is_first_crawl_func[1]]

Vals(d) == {d[i].val : i \in 1..Len(d)}

\* lines 141-146: the latest non-empty last_time over every source of the
\* history, 0 (None) when there is none
LatestTime(title_info) ==
    LET times == {info.last_time : info \in UNION {Vals(titles) : titles \in Vals(title_info)}}
                    \ {0}
    IN IF times = {} THEN 0 ELSE CHOOSE m \in times : \A x \in times : x <= m

\* (mutant: every title with a history record is kept, whatever its time)
RECURSIVE FilterSourcesAnyTime(_, _, _)
FilterSourcesAnyTime(results, title_info, latest_time) ==
    IF results = <<>> THEN <<>>
    ELSE LET source_id == Head(results).key
             rest == FilterSourcesAnyTime(Tail(results), title_info, latest_time)
         IN IF ~HasKey(title_info, source_id) THEN rest
            ELSE LET filtered_titles ==
                        SelectSeq(Head(results).val,
                            LAMBDA e : HasKey(Get(title_info, source_id), e.key))
                 IN IF filtered_titles # <<>>
                    THEN <<[key |-> source_id, val |-> filtered_titles]>> \o rest
                    ELSE rest

RECURSIVE FilterSources(_, _, _)
FilterSources(results, title_info, latest_time) ==
    IF results = <<>> THEN <<>>
    ELSE LET source_id == Head(results).key
             source_titles == Head(results).val
             rest == FilterSources(Tail(results), title_info, latest_time)
         IN IF ~HasKey(title_info, source_id) THEN rest
            ELSE LET filtered_titles ==
                        SelectSeq(source_titles,
                            LAMBDA e : /\ HasKey(Get(title_info, source_id), e.key)
                                       /\ Get(Get(title_info, source_id), e.key).last_time
                                              = latest_time)
                 IN IF filtered_titles # <<>>
                    THEN <<[key |-> source_id, val |-> filtered_titles]>> \o rest
                    ELSE rest

\* (mutant: the snapshot is passed on unfiltered)
FilterNothing(config, results) == results

\* (mutant: the filter runs even when the history is empty or has no time)
FilterUnguarded(config, results) ==
    FilterSources(results, config.title_info, LatestTime(config.title_info))

\* lines 135-171
_filter_current_batch(config, results) ==
    IF config.title_info = <<>> THEN results
    ELSE LET latest_time == LatestTime(config.title_info) IN
         IF latest_time = 0 THEN results
         ELSE FilterSources(results, config.title_info, latest_time)

\* (mutant: incremental mode always works on the whole snapshot)
ScopeWholeSnapshot(config, results) ==
    IF config.mode = "current"
    THEN <<_filter_current_batch(config, results), FALSE>>
    ELSE <<results, config.mode = "incremental">>

\* (mutant: no mode marks every title as new)
ScopeNeverAllNew(config, results) ==
    IF config.mode = "incremental"
    THEN IF config.is_first_today THEN <<results, FALSE>>
         ELSE <<config.new_titles, FALSE>>
    ELSE IF config.mode = "current"
    THEN <<_filter_current_batch(config, results), FALSE>>
    ELSE <<results, FALSE>>

\* (results_to_process, all_news_are_new)
_determine_processing_scope(config, results) ==
    IF config.mode = "incremental"
    THEN IF config.is_first_today THEN <<results, TRUE>>
         ELSE <<config.new_titles, TRUE>>
    ELSE IF config.mode = "current"
    THEN <<_filter_current_batch(config, results), FALSE>>
    ELSE <<results, FALSE>>

\* ------------------------------------------------------------------------
\* analyzer.py: one title
\* ------------------------------------------------------------------------
format_time_display(first_time, last_time) ==
    IF first_time = 0 THEN <<>>
    ELSE IF first_time = last_time \/ last_time = 0 THEN <<first_time>>
    ELSE <<first_time, last_time>>

\* (mutant: the history is never consulted)
HistoryIgnored(config, source_id, title) == FALSE

\* line 210
HasHistory(config, source_id, title) ==
    /\ config.title_info # <<>>
    /\ HasKey(config.title_info, source_id)
    /\ HasKey(Get(config.title_info, source_id), title)

\* url stands for url, mobileUrl and image_url, which the code treats alike
_process_title_data(title, title_data, source_id, config, all_news_are_new) ==
    LET has_info == HasHistory(config, source_id, title)
        info == Get(Get(config.title_info, source_id), title)
        first_time == IF has_info THEN info.first_time ELSE 0
        last_time == IF has_info THEN info.last_time ELSE 0
        count_info == IF has_info THEN info.count ELSE 1
        ranks0 == IF has_info /\ info.ranks # <<>> THEN info.ranks ELSE title_data.ranks
        ranks == IF ranks0 = <<>> THEN <<DEFAULT_RANK>> ELSE ranks0
        url == IF has_info THEN info.url ELSE title_data.url
        is_new == IF all_news_are_new THEN TRUE
                  ELSE IF config.new_titles # <<>> /\ HasKey(config.new_titles, source_id)
                  THEN HasKey(Get(config.new_titles, source_id), title)
                  ELSE FALSE
    IN [title |-> title,
        source_name |-> IF HasKey(config.id_to_name, source_id)
                        THEN Get(config.id_to_name, source_id) ELSE source_id,
        first_time |-> first_time,
        last_time |-> last_time,
        time_display |-> format_time_display(first_time, last_time),
        count |-> count_info,
        ranks |-> ranks,
        rank_threshold |-> config.rank_threshold,
        url |-> url,
        is_new |-> is_new]

\* (mutant: the normal entries are not consulted when required is non-empty,
\* and a group with both lists empty never matches)
SecondPassMatchElse(group, title_lower, word_groups) ==
    IF Len(word_groups) = 1 /\ word_groups[1].group_key = ALL_NEWS THEN TRUE
    ELSE IF group.required # <<>> THEN AllMatch(group.required, title_lower)
    ELSE group.normal # <<>> /\ AnyMatches(group.normal, title_lower)

\* lines 470-483: the inline re-check that decides the bucket
SecondPassMatch(group, title_lower, word_groups) ==
    IF Len(word_groups) = 1 /\ word_groups[1].group_key = ALL_NEWS THEN TRUE
    ELSE /\ ~(group.required # <<>> /\ ~AllMatch(group.required, title_lower))
         /\ ~(/\ group.normal # <<>>
              /\ ~AnyMatches(group.normal, title_lower)
              /\ ~(group.required = <<>> /\ group.normal = <<>>))

\* (mutant: the loop without its break)
MatchedGroupKeysNoBreak(title, word_groups) ==
    {word_groups[i].group_key :
        i \in {h \in 1..Len(word_groups) :
                  SecondPassMatch(word_groups[h], Lower(title), word_groups)}}

\* the keys of the groups the loop of lines 468-497 appends the title to: the
\* first group that matches, where the loop breaks
MatchedGroupKeys(title, word_groups) ==
    LET title_lower == Lower(title)
        hits == {i \in 1..Len(word_groups) :
                    SecondPassMatch(word_groups[i], title_lower, word_groups)}
    IN {word_groups[i].group_key : i \in {h \in hits : \A j \in hits : h <= j}}

\* (mutant: the check made without the filter lists)
AcceptedNoFilters(title, config) ==
    matches_word_groups(title, config.word_groups, <<>>, <<>>)

\* lines 452-454: the accept/reject check
Accepted(title, config) ==
    matches_word_groups(title, config.word_groups, config.filter_words,
                        config.global_filters)

\* ------------------------------------------------------------------------
\* analyzer.py: _sort_and_format_stats
\* ------------------------------------------------------------------------
\* key(a) < key(b) for the key (-weight, min(ranks) or 999, -count)
TitleKeyBefore(a, b, rank_threshold, weight_config) ==
    LET wa == calculate_news_weight(a, rank_threshold, weight_config)
        wb == calculate_news_weight(b, rank_threshold, weight_config)
        ma == IF a.ranks # <<>> THEN MinSeq(a.ranks) ELSE NO_RANK_KEY
        mb == IF b.ranks # <<>> THEN MinSeq(b.ranks) ELSE NO_RANK_KEY
    IN \/ FracLess(wb, wa)
       \/ FracEq(wa, wb) /\ ma < mb
       \/ FracEq(wa, wb) /\ ma = mb /\ a.count > b.count

\* sorted() is stable: x goes behind every element whose key is not larger
RECURSIVE InsertTitle(_, _, _, _)
InsertTitle(sorted, x, rank_threshold, weight_config) ==
    IF sorted = <<>> THEN <<x>>
    ELSE IF TitleKeyBefore(x, Head(sorted), rank_threshold, weight_config)
    THEN <<x>> \o sorted
    ELSE <<Head(sorted)>> \o InsertTitle(Tail(sorted), x, rank_threshold, weight_config)

\* (mutant: the titles stay in the order they were appended)
UnsortedTitles(titles, rank_threshold, weight_config) == titles

RECURSIVE SortTitles(_, _, _)
SortTitles(titles, rank_threshold, weight_config) ==
    IF titles = <<>> THEN <<>>
    ELSE InsertTitle(SortTitles(SubSeq(titles, 1, Len(titles) - 1),
                                rank_threshold, weight_config),
                     titles[Len(titles)], rank_threshold, weight_config)

\* key(a) < key(b) for (position, -count) or (-count, position)
StatKeyBefore(a, b, sort_by_position_first) ==
    IF sort_by_position_first
    THEN \/ a.position < b.position
         \/ a.position = b.position /\ a.count > b.count
    ELSE \/ a.count > b.count
         \/ a.count = b.count /\ a.position < b.position

RECURSIVE InsertStat(_, _, _)
InsertStat(sorted, x, sort_by_position_first) ==
    IF sorted = <<>> THEN <<x>>
    ELSE IF StatKeyBefore(x, Head(sorted), sort_by_position_first)
    THEN <<x>> \o sorted
    ELSE <<Head(sorted)>> \o InsertStat(Tail(sorted), x, sort_by_position_first)

\* (mutant: the stats stay in the order of the buckets)
UnsortedStats(stats, sort_by_position_first) == stats

RECURSIVE SortStats(_, _)
SortStats(stats, sort_by_position_first) ==
    IF stats = <<>> THEN <<>>
    ELSE InsertStat(SortStats(SubSeq(stats, 1, Len(stats) - 1), sort_by_position_first),
                    stats[Len(stats)], sort_by_position_first)

\* round(count / total * 100, 2) in hundredths of a percent, ties to even
Percentage(count, total) ==
    IF total > 0
    THEN LET n == count * 10000
             q == n \div total
             r == n % total
         IN IF 2 * r > total \/ (2 * r = total /\ q % 2 = 1) THEN q + 1 ELSE q
    ELSE 0

\* lines 280-285
EffectiveCap(group_max_count, max_news_per_keyword) ==
    IF group_max_count = 0 THEN max_news_per_keyword ELSE group_max_count

\* (mutant: the list is never cut)
ApplyNoCap(sorted_titles, group_max_count) == sorted_titles

ApplyCap(sorted_titles, group_max_count) ==
    IF group_max_count > 0 THEN Prefix(sorted_titles, group_max_count) ELSE sorted_titles

\* the titles of all sources of one bucket, in insertion order
RECURSIVE Flatten(_)
Flatten(d) == IF d = <<>> THEN <<>> ELSE Head(d).val \o Flatten(Tail(d))

\* index (from 0) of the group with this key, the last one winning as in a
\* dict comprehension
GroupIndex(word_groups, group_key) ==
    CHOOSE i \in 1..Len(word_groups) :
        /\ word_groups[i].group_key = group_key
        /\ \A j \in (i + 1)..Len(word_groups) : word_groups[j].group_key # group_key

\* (mutant: the count is taken from the list that is shown)
FormatStatCountingShown(config, entry, total_titles) ==
    LET group == config.word_groups[GroupIndex(config.word_groups, entry.key)]
        sorted_titles == SortTitles(Flatten(entry.val.titles),
                                    config.rank_threshold, config.weight_config)
        shown == ApplyCap(sorted_titles,
                          EffectiveCap(group.max_count, config.max_news_per_keyword))
    IN [word |-> IF group.display_name # "" THEN group.display_name ELSE entry.key,
        count |-> Len(shown),
        position |-> GroupIndex(config.word_groups, entry.key) - 1,
        titles |-> shown,
        percentage |-> Percentage(Len(shown), total_titles)]

FormatStat(config, entry, total_titles) ==
    LET group == config.word_groups[GroupIndex(config.word_groups, entry.key)]
        sorted_titles == SortTitles(Flatten(entry.val.titles),
                                    config.rank_threshold, config.weight_config)
        group_max_count == EffectiveCap(group.max_count, config.max_news_per_keyword)
    IN [word |-> IF group.display_name # "" THEN group.display_name ELSE entry.key,
        count |-> entry.val.count,
        position |-> GroupIndex(config.word_groups, entry.key) - 1,
        titles |-> ApplyCap(sorted_titles, group_max_count),
        percentage |-> Percentage(entry.val.count, total_titles)]

\* (mutant: buckets that counted nothing give no stat)
SortAndFormatDroppingEmpty(config, word_stats, total_titles) ==
    SortStats(SelectSeq([i \in 1..Len(word_stats) |->
                            FormatStat(config, word_stats[i], total_titles)],
                        LAMBDA st : st.count > 0),
              config.sort_by_position_first)

_sort_and_format_stats(config, word_stats, total_titles) ==
    SortStats([i \in 1..Len(word_stats) |-> FormatStat(config, word_stats[i], total_titles)],
              config.sort_by_position_first)

\* ------------------------------------------------------------------------
\* analyzer.py: count_word_frequency
\* ------------------------------------------------------------------------
\* lines 174-185: one bucket per group key
_initialize_word_stats(config) ==
    [i \in 1..Len(config.word_groups) |->
        [key |-> config.word_groups[i].group_key,
         val |-> [count |-> 0, titles |-> <<>>]]]

\* d[k].append(x), creating d[k] = [] first when k is new
AppendAt(d, k, x) ==
    IF HasKey(d, k)
    THEN [i \in 1..Len(d) |->
            IF d[i].key = k THEN [d[i] EXCEPT !.val = Append(d[i].val, x)] ELSE d[i]]
    ELSE Append(d, [key |-> k, val |-> <<x>>])

\* lines 486-491
AddToBuckets(word_stats, group_keys, source_id, processed_data) ==
    [i \in 1..Len(word_stats) |->
        IF word_stats[i].key \in group_keys
        THEN [word_stats[i] EXCEPT
                !.val.count = @ + 1,
                !.val.titles = AppendAt(@, source_id, processed_data)]
        ELSE word_stats[i]]

\* lines 447-497: the body of the inner loop for one title; acc holds the
\* locals word_stats, processed_titles, matched_count, matched_new_count
ProcessTitle(acc, source_id, title, title_data, config, all_news_are_new) ==
    IF <<source_id, title>> \in acc.processed_titles THEN acc
    ELSE IF ~Accepted(title, config) THEN acc
    ELSE LET counted ==
                [acc EXCEPT
                    !.matched_count = @ + 1,
                    !.matched_new_count =
                        IF \/ config.mode = "incremental" /\ all_news_are_new
                           \/ config.mode = "current" /\ config.is_first_today
                        THEN @ + 1 ELSE @]
             processed_data ==
                _process_title_data(title, title_data, source_id, config, all_news_are_new)
             keys == MatchedGroupKeys(title, config.word_groups)
         IN IF keys = {} THEN counted
            ELSE [counted EXCEPT
                    !.word_stats = AddToBuckets(@, keys, source_id, processed_data),
                    !.processed_titles = @ \cup {<<source_id, title>>}]

RECURSIVE ProcessTitles(_, _, _, _, _)
ProcessTitles(acc, source_id, titles_data, config, all_news_are_new) ==
    IF titles_data = <<>> THEN acc
    ELSE ProcessTitles(
            ProcessTitle(acc, source_id, Head(titles_data).key, Head(titles_data).val,
                         config, all_news_are_new),
            source_id, Tail(titles_data), config, all_news_are_new)

\* lines 444-445
RECURSIVE ProcessSources(_, _, _, _)
ProcessSources(acc, results_to_process, config, all_news_are_new) ==
    IF results_to_process = <<>> THEN acc
    ELSE ProcessSources(
            ProcessTitles([acc EXCEPT !.total_titles = @ + Len(Head(results_to_process).val)],
                          Head(results_to_process).key, Head(results_to_process).val,
                          config, all_news_are_new),
            Tail(results_to_process), config, all_news_are_new)

\* The state: the input drawn, the value the last call returned and the one
\* the call before it returned, how many calls were made, and the
\* processed_titles local as the last call of count_word_frequency left it.
VARIABLES input, output, prev_output, pc, processed_titles, attempt, responses

\* (mutant: the set of processed titles is kept from the call before)
StaleProcessedTitles == processed_titles

\* line 439
FreshProcessedTitles == {}

\* the whole call: the locals after the loop, the returned stats and total
count_word_frequency(results, args) ==
    LET config == WordFrequencyConfig(args)
        scope == _determine_processing_scope(config, results)
        acc == ProcessSources(
                  [word_stats |-> _initialize_word_stats(config),
                   total_titles |-> 0,
                   processed_titles |-> FreshProcessedTitles,
                   matched_count |-> 0,
                   matched_new_count |-> 0],
                  scope[1], config, scope[2])
    IN [stats |-> _sort_and_format_stats(config, acc.word_stats, acc.total_titles),
        total_titles |-> acc.total_titles,
        processed_titles |-> acc.processed_titles,
        matched_count |-> acc.matched_count,
        matched_new_count |-> acc.matched_new_count]

\* ------------------------------------------------------------------------
\* analyzer.py: count_rss_frequency
\* ------------------------------------------------------------------------
\* an item: [title, feed_name, url, published_at]; url "" and
\* published_at 0 are the empty strings

\* lines 600-604: sorted(..., key=published_at, reverse=True), which keeps the
\* input order of items with equal keys
RECURSIVE InsertByRecency(_, _)
InsertByRecency(sorted, x) ==
    IF sorted = <<>> THEN <<x>>
    ELSE IF x.published_at > Head(sorted).published_at THEN <<x>> \o sorted
    ELSE <<Head(sorted)>> \o InsertByRecency(Tail(sorted), x)

RECURSIVE SortByRecency(_)
SortByRecency(items) ==
    IF items = <<>> THEN <<>>
    ELSE InsertByRecency(SortByRecency(SubSeq(items, 1, Len(items) - 1)), items[Len(items)])

\* line 605: a dict comprehension, so the last position of a url wins
UrlToRank(sorted_items, url) ==
    CHOOSE i \in 1..Len(sorted_items) :
        /\ sorted_items[i].url = url
        /\ \A j \in (i + 1)..Len(sorted_items) : sorted_items[j].url # url

\* lines 623-650
RssGroupMatch(group, title_lower, word_groups) ==
    IF Len(word_groups) = 1 /\ word_groups[1].group_key = ALL_RSS THEN TRUE
    ELSE /\ group.required # <<>> => AllMatch(group.required, title_lower)
         /\ group.normal # <<>> => AnyMatches(group.normal, title_lower)

\* the first group that matches (line 678: break)
RssMatchedGroupKeys(title, word_groups) ==
    LET title_lower == Lower(title)
        hits == {i \in 1..Len(word_groups) :
                    RssGroupMatch(word_groups[i], title_lower, word_groups)}
    IN {word_groups[i].group_key : i \in {h \in hits : \A j \in hits : h <= j}}

\* lines 617-619
RssAccepted(title, word_groups, filter_words, global_filters) ==
    matches_word_groups(title, word_groups, filter_words, global_filters)

\* lines 655-676
RssTitleData(item, new_urls, sorted_items, rank_threshold) ==
    [title |-> item.title,
     source_name |-> item.feed_name,
     time_display |-> IF item.published_at # 0 THEN <<item.published_at>> ELSE <<>>,
     count |-> 1,
     ranks |-> <<IF item.url # "" THEN UrlToRank(sorted_items, item.url)
                 ELSE DEFAULT_RANK>>,
     rank_threshold |-> rank_threshold,
     url |-> item.url,
     is_new |-> IF item.url # "" THEN item.url \in new_urls ELSE FALSE]

\* the loop body without lines 611-615
RssProcessItemNoDedupe(acc, item, word_groups, filter_words, global_filters, new_urls, sorted_items, rank_threshold) ==
    IF ~RssAccepted(item.title, word_groups, filter_words, global_filters) THEN acc
    ELSE [acc EXCEPT !.word_stats =
            [i \in 1..Len(@) |->
                IF @[i].key \in RssMatchedGroupKeys(item.title, word_groups)
                THEN [@[i] EXCEPT
                        !.val.count = @ + 1,
                        !.val.titles = Append(@, RssTitleData(item, new_urls,
                                           sorted_items, rank_threshold))]
                ELSE @[i]]]

\* lines 607-678: the loop body for one item; acc holds word_stats and
\* processed_urls
RssProcessItem(acc, item, word_groups, filter_words, global_filters, new_urls, sorted_items, rank_threshold) ==
    IF item.url # "" /\ item.url \in acc.processed_urls THEN acc
    ELSE LET seen == [acc EXCEPT !.processed_urls =
                         IF item.url # "" THEN @ \cup {item.url} ELSE @]
             keys == RssMatchedGroupKeys(item.title, word_groups)
         IN IF ~RssAccepted(item.title, word_groups, filter_words, global_filters)
            THEN seen
            ELSE [seen EXCEPT !.word_stats =
                    [i \in 1..Len(@) |->
                        IF @[i].key \in keys
                        THEN [@[i] EXCEPT
                                !.val.count = @ + 1,
                                !.val.titles = Append(@, RssTitleData(item, new_urls,
                                                   sorted_items, rank_threshold))]
                        ELSE @[i]]]

RECURSIVE RssProcessItems(_, _, _, _, _, _, _, _)
RssProcessItems(acc, items, word_groups, filter_words, global_filters, new_urls, sorted_items, rank_threshold) ==
    IF items = <<>> THEN acc
    ELSE RssProcessItems(
            RssProcessItem(acc, Head(items), word_groups, filter_words, global_filters,
                           new_urls, sorted_items, rank_threshold),
            Tail(items), word_groups, filter_words, global_filters,
            new_urls, sorted_items, rank_threshold)

\* line 697-700: sorted by ranks[0]
RECURSIVE InsertByRank(_, _)
InsertByRank(sorted, x) ==
    IF sorted = <<>> THEN <<x>>
    ELSE IF x.ranks[1] < Head(sorted).ranks[1] THEN <<x>> \o sorted
    ELSE <<Head(sorted)>> \o InsertByRank(Tail(sorted), x)

RECURSIVE SortByRank(_)
SortByRank(titles) ==
    IF titles = <<>> THEN <<>>
    ELSE InsertByRank(SortByRank(SubSeq(titles, 1, Len(titles) - 1)), titles[Len(titles)])

\* lines 692-718 for one bucket
RssFormatStat(word_groups, entry, max_news_per_keyword, total_items) ==
    LET group == word_groups[GroupIndex(word_groups, entry.key)]
        group_max_count == EffectiveCap(group.max_count, max_news_per_keyword)
    IN [word |-> IF group.display_name # "" THEN group.display_name ELSE entry.key,
        count |-> entry.val.count,
        position |-> GroupIndex(word_groups, entry.key) - 1,
        titles |-> ApplyCap(SortByRank(entry.val.titles), group_max_count),
        percentage |-> Percentage(entry.val.count, total_items)]

count_rss_frequency(rss_items, args) ==
    IF rss_items = <<>> THEN [stats |-> <<>>, total_items |-> 0]
    ELSE
    LET word_groups == IF args.word_groups = <<>> THEN <<SyntheticGroup(ALL_RSS)>>
                       ELSE args.word_groups
        filter_words == IF args.word_groups = <<>> THEN <<>> ELSE args.filter_words
        new_urls == {args.new_items[i].url : i \in 1..Len(args.new_items)} \ {""}
        sorted_items == SortByRecency(rss_items)
        acc == RssProcessItems(
                  [word_stats |-> [i \in 1..Len(word_groups) |->
                                     [key |-> word_groups[i].group_key,
                                      val |-> [count |-> 0, titles |-> <<>>]]],
                   processed_urls |-> {}],
                  rss_items, word_groups, filter_words, args.global_filters,
                  new_urls, sorted_items, args.rank_threshold)
        matched == SelectSeq(acc.word_stats, LAMBDA e : e.val.count # 0)
    IN [stats |-> SortStats([i \in 1..Len(matched) |->
                                RssFormatStat(word_groups, matched[i],
                                              args.max_news_per_keyword, Len(rss_items))],
                            args.sort_by_position_first),
        total_items |-> Len(rss_items)]

\* ------------------------------------------------------------------------
\* analyzer.py: convert_keyword_stats_to_platform_stats
\* ------------------------------------------------------------------------
\* lines 761-762: a copy of title_data with the key matched_keyword added
WithMatchedKeyword(title_data, keyword) ==
    [f \in DOMAIN title_data \cup {"matched_keyword"} |->
        IF f = "matched_keyword" THEN keyword ELSE title_data[f]]

\* lines 754-763 for the titles of one stat
RECURSIVE CollectTitles(_, _, _)
CollectTitles(platform_map, keyword, titles) ==
    IF titles = <<>> THEN platform_map
    ELSE CollectTitles(AppendAt(platform_map, Head(titles).source_name,
                                WithMatchedKeyword(Head(titles), keyword)),
                       keyword, Tail(titles))

\* lines 750-763
RECURSIVE CollectStats(_, _)
CollectStats(platform_map, keyword_stats) ==
    IF keyword_stats = <<>> THEN platform_map
    ELSE CollectStats(CollectTitles(platform_map, Head(keyword_stats).word,
                                    Head(keyword_stats).titles),
                      Tail(keyword_stats))

\* (mutant: every entry of a source is kept)
KeepAllTitles(titles) == titles

\* lines 767-774: the first entry of each title text
UniqueTitles(titles) ==
    LET keep == {i \in 1..Len(titles) :
                    \A j \in 1..(i - 1) : titles[j].title # titles[i].title}
        Nth(k) == CHOOSE i \in keep : Cardinality({j \in keep : j < i}) = k - 1
    IN [k \in 1..Cardinality(keep) |-> titles[Nth(k)]]

\* line 798: sort(key=-count), stable
RECURSIVE InsertByCount(_, _)
InsertByCount(sorted, x) ==
    IF sorted = <<>> THEN <<x>>
    ELSE IF x.count > Head(sorted).count THEN <<x>> \o sorted
    ELSE <<Head(sorted)>> \o InsertByCount(Tail(sorted), x)

RECURSIVE SortByCount(_)
SortByCount(stats) ==
    IF stats = <<>> THEN <<>>
    ELSE InsertByCount(SortByCount(SubSeq(stats, 1, Len(stats) - 1)), stats[Len(stats)])

\* lines 789-795 for one source
PlatformStat(source_name, titles) ==
    [word |-> source_name, count |-> Len(titles), titles |-> titles, percentage |-> 0]

convert_keyword_stats_to_platform_stats(keyword_stats, weight_config, rank_threshold) ==
    LET platform_map == CollectStats(<<>>, keyword_stats)
        sorted_map == [i \in 1..Len(platform_map) |->
                          [key |-> platform_map[i].key,
                           val |-> SortTitles(UniqueTitles(platform_map[i].val),
                                              rank_threshold, weight_config)]]
    IN SortByCount([i \in 1..Len(sorted_map) |->
                       PlatformStat(sorted_map[i].key, sorted_map[i].val)])

\* ------------------------------------------------------------------------
\* fetcher.py: AsyncDataFetcher.fetch_data
\* ------------------------------------------------------------------------
\* What one request of fetch_data comes to: a response that passes lines 92-100
\* ("ok", with its text), or the exception that lines 92-100 raise.
RetriedErrors == {"TimeoutException", "ConnectError", "NetworkError", "HTTPStatusError5xx", "Exception"}
FinalErrors == {"HTTPStatusError4xx", "JSONDecodeError", "ValueError"}
\* an HTTPStatusError whose code is neither 4xx nor 5xx takes neither branch
\* of lines 139-150
UnhandledStatus == {"HTTPStatusErrorOther"}

\* lines 81-85
IdValue(id_info) == id_info.id
Alias(id_info) == IF id_info.tuple THEN id_info.alias ELSE id_info.id

\* (mutant: no response is taken for a success)
NeverSuccess(outcome) == FALSE

\* lines 92-102: the request returned and its text passed the checks
IsSuccess(outcome) == outcome.kind = "ok"

\* lines 107, 117, 127, 145, 165: another attempt follows this failure; for the
\* unhandled status the for loop of line 90 goes on while attempts are left
GoesOn(outcome, attempt_no, max_retries) ==
    /\ outcome.kind \in RetriedErrors \cup UnhandledStatus
    /\ attempt_no < max_retries

\* the value fetch_data returns after this outcome, when it returns
FetchReturn(outcome, id_info) ==
    [data_text |-> IF IsSuccess(outcome) THEN <<outcome.text>> ELSE <<>>,
     id_value |-> IdValue(id_info),
     alias |-> Alias(id_info)]

\* ------------------------------------------------------------------------
\* fetcher.py: AsyncDataFetcher.crawl_websites
\* ------------------------------------------------------------------------
\* d[k] = v: a key the dict has keeps its place
DictSet(d, k, v) ==
    IF HasKey(d, k)
    THEN [i \in 1..Len(d) |-> IF d[i].key = k THEN [key |-> k, val |-> v] ELSE d[i]]
    ELSE Append(d, [key |-> k, val |-> v])

\* str.strip() on the model's alphabet, where " " is the only white space
RECURSIVE LStrip(_)
LStrip(s) == IF s # <<>> /\ Head(s) = " " THEN LStrip(Tail(s)) ELSE s
RECURSIVE RStrip(_)
RStrip(s) ==
    IF s # <<>> /\ s[Len(s)] = " " THEN RStrip(SubSeq(s, 1, Len(s) - 1)) ELSE s
Strip(s) == RStrip(LStrip(s))

\* utils/image.py is_valid_image_url on the model's image urls: an empty url
\* and one that ends in .js are refused
is_valid_image_url(url) == url # "" /\ url # "x.js"

\* lines 187-191
RECURSIVE IdToName(_, _)
IdToName(id_to_name, ids_list) ==
    IF ids_list = <<>> THEN id_to_name
    ELSE IdToName(DictSet(id_to_name, IdValue(Head(ids_list)), Alias(Head(ids_list))),
                  Tail(ids_list))

\* (mutant: a repeated title starts its entry again)
AddItemOverwriting(snapshot, index, item) ==
    DictSet(snapshot, Strip(item.title),
            [ranks |-> <<index>>, url |-> item.url,
             image_url |-> IF is_valid_image_url(item.pic) THEN item.pic ELSE ""])

\* lines 218-235 for an item with a title
AddItem(snapshot, index, item) ==
    LET title == Strip(item.title)
        entry == IF HasKey(snapshot, title)
                 THEN [Get(snapshot, title) EXCEPT !.ranks = Append(@, index)]
                 ELSE [ranks |-> <<index>>, url |-> item.url, image_url |-> ""]
    IN DictSet(snapshot, title,
               IF is_valid_image_url(item.pic) THEN [entry EXCEPT !.image_url = item.pic]
               ELSE entry)

\* lines 213-235: the items from position index on; an item that is no dict
\* raises at line 214 and ends the loop with what was built so far
RECURSIVE ParseItems(_, _, _)
ParseItems(snapshot, items, index) ==
    IF items = <<>> THEN [snapshot |-> snapshot, raised |-> FALSE]
    ELSE IF ~Head(items).dict THEN [snapshot |-> snapshot, raised |-> TRUE]
    ELSE IF Strip(Head(items).title) = <<>>
    THEN ParseItems(snapshot, Tail(items), index + 1)
    ELSE ParseItems(AddItem(snapshot, index, Head(items)), Tail(items), index + 1)

\* lines 203-239 for one response; items that cannot be iterated raise at
\* line 213, after line 210 has set results[id_value]
ParseResponse(acc, response) ==
    IF response.data_text = <<>>
    THEN [acc EXCEPT !.failed_ids = Append(@, response.id_value)]
    ELSE LET data == response.data_text[1]
             parsed == IF data.iterable THEN ParseItems(<<>>, data.items, 1)
                       ELSE [snapshot |-> <<>>, raised |-> TRUE]
         IN [results |-> DictSet(acc.results, response.id_value, parsed.snapshot),
             failed_ids |-> IF parsed.raised THEN Append(acc.failed_ids, response.id_value)
                            ELSE acc.failed_ids]

RECURSIVE ParseResponses(_, _)
ParseResponses(acc, responses_) ==
    IF responses_ = <<>> THEN acc
    ELSE ParseResponses(ParseResponse(acc, Head(responses_)), Tail(responses_))

\* lines 308-319: per source the first ENRICH_LIMIT entries, by least rank,
\* that have a url and no image; the entries of a snapshot are in the order of
\* their first rank already
ENRICH_LIMIT == 5
EnrichTasksOf(source_id, items_dict) ==
    LET want == {i \in 1..Len(items_dict) :
                    items_dict[i].val.image_url = "" /\ items_dict[i].val.url # ""}
    IN {<<source_id, items_dict[i].key>> :
           i \in {w \in want : Cardinality({v \in want : v < w}) < ENRICH_LIMIT}}
EnrichTasks(results) ==
    UNION {EnrichTasksOf(results[i].key, results[i].val) : i \in 1..Len(results)}

\* lines 245-330: the tasks in found end with an image for their entry
Enrich(results, found) ==
    [i \in 1..Len(results) |->
        [key |-> results[i].key,
         val |-> [k \in 1..Len(results[i].val) |->
                     IF <<results[i].key, results[i].val[k].key>> \in found
                     THEN [results[i].val[k] EXCEPT !.val.image_url = "og.png"]
                     ELSE results[i].val[k]]]]

\* lines 182-332; answers[i] is what fetch_data returned for ids_list[i]
crawl_websites(ids_list, answers, found) ==
    LET id_to_name == IdToName(<<>>, ids_list)
        responses_ == [i \in 1..Len(ids_list) |->
                          [data_text |-> answers[i],
                           id_value |-> IdValue(ids_list[i]),
                           alias |-> Alias(ids_list[i])]]
        parsed == ParseResponses([results |-> <<>>, failed_ids |-> <<>>], responses_)
    IN [results |-> Enrich(parsed.results, found \cap EnrichTasks(parsed.results)),
        id_to_name |-> id_to_name,
        failed_ids |-> parsed.failed_ids]

\* ------------------------------------------------------------------------
\* context.py: AppContext.get_content_hash, deduplicate_report_data,
\* deduplicate_rss_data
\* ------------------------------------------------------------------------
\* lines 543-555; the md5 digest stands for the text it is taken of: the url,
\* or source ":" title
get_content_hash(dedup_config, item_url, item_title, item_source) ==
    IF dedup_config.use_url_hash /\ item_url # "" THEN <<item_url>>
    ELSE <<item_source, ":", item_title>>

RecordOf(content_hash, title, url) == [hash |-> content_hash, title |-> title, url |-> url]

\* lines 583-602 for the titles of one stat: a hash met again keeps its place
\* in hash_to_info and takes the later title and stat
RECURSIVE HashTitles(_, _, _, _)
HashTitles(hash_to_info, dedup_config, stat, titles) ==
    IF titles = <<>> THEN hash_to_info
    ELSE LET t == Head(titles) IN
         HashTitles(DictSet(hash_to_info,
                            get_content_hash(dedup_config, t.url, t.title, t.source_id),
                            [title |-> t.title, url |-> t.url, title_obj |-> t, stat |-> stat]),
                    dedup_config, stat, Tail(titles))

RECURSIVE HashStats(_, _, _)
HashStats(hash_to_info, dedup_config, stats) ==
    IF stats = <<>> THEN hash_to_info
    ELSE HashStats(HashTitles(hash_to_info, dedup_config, Head(stats), Head(stats).titles),
                   dedup_config, Tail(stats))

\* (mutant: nothing counts as pushed)
NeverPushed(content_hash, pushed_hashes) == FALSE

\* lines 612, 687, 726, 805: `content_hash not in pushed_hashes`, negated
IsPushed(content_hash, pushed_hashes) == content_hash \in pushed_hashes

\* lines 611-637 for one hash: `stat not in filtered_stats` compares the stat
\* of the report with the copies made so far, as dicts
FilterHash(acc, content_hash, info, pushed_hashes) ==
    IF IsPushed(content_hash, pushed_hashes) THEN acc
    ELSE LET filtered_stats ==
                 IF \E i \in 1..Len(acc.filtered_stats) : acc.filtered_stats[i] = info.stat
                 THEN acc.filtered_stats
                 ELSE Append(acc.filtered_stats,
                             [info.stat EXCEPT !.titles = <<>>, !.count = 0])
             first == CHOOSE i \in 1..Len(filtered_stats) :
                         /\ filtered_stats[i].word = info.stat.word
                         /\ \A j \in 1..(i - 1) : filtered_stats[j].word # info.stat.word
         IN [filtered_stats |->
                 [filtered_stats EXCEPT ![first].titles = Append(@, info.title_obj),
                                        ![first].count = @ + 1],
             items_to_record |-> Append(acc.items_to_record,
                                        RecordOf(content_hash, info.title, info.url))]

RECURSIVE FilterHashes(_, _, _)
FilterHashes(acc, hash_to_info, pushed_hashes) ==
    IF hash_to_info = <<>> THEN acc
    ELSE FilterHashes(FilterHash(acc, Head(hash_to_info).key, Head(hash_to_info).val,
                                 pushed_hashes),
                      Tail(hash_to_info), pushed_hashes)

\* lines 606-608: the hashes of the query that the storage reports as pushed
PushedAmong(hashes, pushed) == hashes \cap pushed

\* lines 678-696 for the titles of one source of the list form
RECURSIVE FilterSourceTitles(_, _, _, _, _)
FilterSourceTitles(acc, dedup_config, source_id, titles, pushed) ==
    IF titles = <<>> THEN acc
    ELSE LET t == Head(titles)
             h == get_content_hash(dedup_config, t.url, t.title, source_id)
         IN FilterSourceTitles(
                IF IsPushed(h, pushed) THEN acc
                ELSE [filtered_titles |-> Append(acc.filtered_titles, t),
                      items_to_record |-> Append(acc.items_to_record,
                                                 RecordOf(h, t.title, t.url))],
                dedup_config, source_id, Tail(titles), pushed)

\* lines 676-698: the list form of new_titles
RECURSIVE FilterNewTitlesList(_, _, _, _)
FilterNewTitlesList(acc, dedup_config, new_titles_list, pushed) ==
    IF new_titles_list = <<>> THEN acc
    ELSE LET source_item == Head(new_titles_list)
             one == FilterSourceTitles(
                        [filtered_titles |-> <<>>, items_to_record |-> acc.items_to_record],
                        dedup_config, source_item.source_id, source_item.titles, pushed)
         IN FilterNewTitlesList(
                [new_titles |->
                    IF one.filtered_titles # <<>>
                    THEN Append(acc.new_titles,
                                [source_item EXCEPT !.titles = one.filtered_titles])
                    ELSE acc.new_titles,
                 items_to_record |-> one.items_to_record],
                dedup_config, Tail(new_titles_list), pushed)

\* lines 705-716: the dict form of new_titles, source by source
RECURSIVE HashNewTitles(_, _, _)
HashNewTitles(hash_to_info, dedup_config, new_titles) ==
    IF new_titles = <<>> THEN hash_to_info
    ELSE LET source_id == Head(new_titles).key
             titles_dict == Head(new_titles).val
             Add[k \in 0..Len(titles_dict)] ==
                 IF k = 0 THEN hash_to_info
                 ELSE DictSet(Add[k - 1],
                              get_content_hash(dedup_config, titles_dict[k].val.url,
                                               titles_dict[k].key, source_id),
                              [title |-> titles_dict[k].key, url |-> titles_dict[k].val.url,
                               source_id |-> source_id, title_info |-> titles_dict[k].val])
         IN HashNewTitles(Add[Len(titles_dict)], dedup_config, Tail(new_titles))

\* lines 724-738
RECURSIVE FilterNewTitlesDict(_, _, _)
FilterNewTitlesDict(acc, hash_to_info, pushed_hashes) ==
    IF hash_to_info = <<>> THEN acc
    ELSE LET h == Head(hash_to_info).key
             info == Head(hash_to_info).val
             of_source == IF HasKey(acc.new_titles, info.source_id)
                          THEN Get(acc.new_titles, info.source_id) ELSE <<>>
         IN FilterNewTitlesDict(
                IF IsPushed(h, pushed_hashes) THEN acc
                ELSE [new_titles |-> DictSet(acc.new_titles, info.source_id,
                                             DictSet(of_source, info.title, info.title_info)),
                      items_to_record |-> Append(acc.items_to_record,
                                                 RecordOf(h, info.title, info.url))],
                Tail(hash_to_info), pushed_hashes)

\* lines 557-746; report_data.new_titles is <<>> when the key is absent, else
\* one value in its list or dict form; pushed is what the storage holds
deduplicate_report_data(dedup_config, report_data, pushed) ==
    IF ~dedup_config.enabled
    THEN [filtered_data |-> report_data, items_to_record |-> <<>>]
    ELSE
    LET hash_to_info == HashStats(<<>>, dedup_config, report_data.stats)
        by_stats == FilterHashes([filtered_stats |-> <<>>, items_to_record |-> <<>>],
                                 hash_to_info, PushedAmong(Keys(hash_to_info), pushed))
        start == [new_titles |-> <<>>, items_to_record |-> by_stats.items_to_record]
        given == report_data.new_titles
        by_new ==
            IF ~dedup_config.dedup_new_titles \/ given = <<>>
            THEN [new_titles |-> given, items_to_record |-> by_stats.items_to_record]
            ELSE IF given[1].form = "list"
            THEN LET r == FilterNewTitlesList(start, dedup_config, given[1].val, pushed)
                 IN [new_titles |-> <<[form |-> "list", val |-> r.new_titles]>>,
                     items_to_record |-> r.items_to_record]
            ELSE LET info == HashNewTitles(<<>>, dedup_config, given[1].val)
                     r == FilterNewTitlesDict(start, info, PushedAmong(Keys(info), pushed))
                 IN [new_titles |-> <<[form |-> "dict", val |-> r.new_titles]>>,
                     items_to_record |-> r.items_to_record]
    IN [filtered_data |-> [stats |-> by_stats.filtered_stats, new_titles |-> by_new.new_titles],
        items_to_record |-> by_new.items_to_record]

\* lines 785-796
RECURSIVE HashRssItems(_, _, _)
HashRssItems(hash_to_info, dedup_config, rss_items) ==
    IF rss_items = <<>> THEN hash_to_info
    ELSE LET item == Head(rss_items) IN
         HashRssItems(DictSet(hash_to_info,
                              get_content_hash(dedup_config, item.url, item.title, item.feed_id),
                              [title |-> item.title, url |-> item.url, item |-> item]),
                      dedup_config, Tail(rss_items))

\* lines 804-818
RECURSIVE FilterRssHashes(_, _, _)
FilterRssHashes(acc, hash_to_info, pushed_hashes) ==
    IF hash_to_info = <<>> THEN acc
    ELSE LET h == Head(hash_to_info).key
             info == Head(hash_to_info).val
         IN FilterRssHashes(
                IF IsPushed(h, pushed_hashes) THEN acc
                ELSE [filtered_items |-> Append(acc.filtered_items, info.item),
                      items_to_record |-> Append(acc.items_to_record,
                                                 RecordOf(h, info.title, info.url))],
                Tail(hash_to_info), pushed_hashes)

\* lines 763-823
deduplicate_rss_data(dedup_config, rss_items, pushed) ==
    IF ~dedup_config.enabled \/ rss_items = <<>>
    THEN [filtered_items |-> rss_items, items_to_record |-> <<>>]
    ELSE LET hash_to_info == HashRssItems(<<>>, dedup_config, rss_items)
         IN FilterRssHashes([filtered_items |-> <<>>, items_to_record |-> <<>>],
                            hash_to_info, PushedAmong(Keys(hash_to_info), pushed))

\* ------------------------------------------------------------------------
\* notification/coordinator.py: whether to push, and what is recorded after
\* ------------------------------------------------------------------------
\* the truth value of a configuration string
Truthy(s) == s # ""

\* lines 31-49
has_notification_configured(cfg) ==
    \/ Truthy(cfg.FEISHU_WEBHOOK_URL)
    \/ Truthy(cfg.DINGTALK_WEBHOOK_URL)
    \/ Truthy(cfg.WEWORK_WEBHOOK_URL)
    \/ (Truthy(cfg.TELEGRAM_BOT_TOKEN) /\ Truthy(cfg.TELEGRAM_CHAT_ID))
    \/ (Truthy(cfg.EMAIL_FROM) /\ Truthy(cfg.EMAIL_PASSWORD) /\ Truthy(cfg.EMAIL_TO))
    \/ (Truthy(cfg.NTFY_SERVER_URL) /\ Truthy(cfg.NTFY_TOPIC))
    \/ Truthy(cfg.BARK_URL)
    \/ Truthy(cfg.SLACK_WEBHOOK_URL)

\* lines 59, 62, 64: any(stat["count"] > 0 for stat in stats) if stats else False
HasMatchedNews(stats) == \E i \in 1..Len(stats) : stats[i].count > 0

\* lines 56-58, 65-67; new_titles is <<>> for None, else <<dict>>
HasNewTitles(new_titles) ==
    /\ new_titles # <<>>
    /\ \E i \in 1..Len(new_titles[1]) : Len(new_titles[1][i].val) > 0

\* lines 51-68
has_valid_content(mode, stats, new_titles) ==
    IF mode = "incremental" THEN HasNewTitles(new_titles) /\ HasMatchedNews(stats)
    ELSE IF mode = "current" THEN HasMatchedNews(stats)
    ELSE HasMatchedNews(stats) \/ HasNewTitles(new_titles)

\* (mutant: whatever dispatch_all returned counts as a success)
AlwaysDelivered(results) == TRUE

\* line 172: `results and any(results.values())`; results is <<>> for None,
\* else <<dict of channel to success>>
Delivered(results) ==
    /\ results # <<>>
    /\ \E i \in 1..Len(results[1]) : results[1][i].val

DispatchCall(returned) == [fn |-> "dispatch_all", returned |-> returned]
RecordNewsCall(item) == [fn |-> "record_pushed_news", item |-> item]
RecordPushCall(report_type) == [fn |-> "record_push", report_type |-> report_type]

\* context.py 748-761: one record_pushed_news call per item, in order; the
\* call number fails_at raises (0: none does), after the calls before it
record_pushed_items(items, fails_at) ==
    IF fails_at = 0 \/ fails_at > Len(items)
    THEN [raised |-> FALSE, calls |-> [i \in 1..Len(items) |-> RecordNewsCall(items[i])]]
    ELSE [raised |-> TRUE, calls |-> [i \in 1..fails_at |-> RecordNewsCall(items[i])]]

\* lines 172-182, once dispatch_all has been called with outcome `dispatched`
AfterDispatch(cfg, report_type, items_to_record, dispatched, fails_at, push_raises) ==
    LET sent == <<DispatchCall(dispatched)>> IN
    IF dispatched.raised THEN [result |-> FALSE, calls |-> sent]
    ELSE IF ~Delivered(dispatched.results) THEN [result |-> FALSE, calls |-> sent]
    ELSE LET items == IF items_to_record # <<>>
                      THEN record_pushed_items(items_to_record, fails_at)
                      ELSE [raised |-> FALSE, calls |-> <<>>]
             once == cfg.PUSH_WINDOW.ENABLED /\ cfg.PUSH_WINDOW.ONCE_PER_DAY
         IN IF items.raised THEN [result |-> FALSE, calls |-> sent \o items.calls]
            ELSE IF once
            THEN [result |-> ~push_raises,
                  calls |-> sent \o items.calls \o <<RecordPushCall(report_type)>>]
            ELSE [result |-> TRUE, calls |-> sent \o items.calls]

Skipped == [result |-> FALSE, calls |-> <<>>]

\* lines 70-182; world holds what the collaborators answer: the push
\* manager's in_time_range and has_pushed_today, the report prepare_report
\* returns, the hashes the storage holds as pushed, the outcome of
\* dispatch_all and of the recording calls
send_notification_if_needed(cfg, args, world) ==
    LET has_notification == has_notification_configured(cfg)
        has_news_content == has_valid_content(args.mode, args.stats, args.new_titles)
        has_rss_content == args.rss_items # <<>>
        has_any_content == has_news_content \/ has_rss_content
    IN
    IF ~(cfg.ENABLE_NOTIFICATION /\ has_notification /\ has_any_content) THEN Skipped
    ELSE IF cfg.PUSH_WINDOW.ENABLED /\ ~world.in_time_range THEN Skipped
    ELSE IF cfg.PUSH_WINDOW.ENABLED /\ cfg.PUSH_WINDOW.ONCE_PER_DAY /\ world.has_pushed_today
    THEN Skipped
    ELSE
    LET news == deduplicate_report_data(cfg.deduplication, world.report_data, world.pushed)
        rss == IF args.rss_raw_items # <<>>
               THEN deduplicate_rss_data(cfg.deduplication, args.rss_raw_items, world.pushed)
               ELSE [filtered_items |-> <<>>, items_to_record |-> <<>>]
        has_new_rss == args.rss_raw_items # <<>> /\ Len(rss.filtered_items) > 0
        items_to_record == news.items_to_record \o rss.items_to_record
        filtered_stats == news.filtered_data.stats
        has_filtered_news == \E i \in 1..Len(filtered_stats) : Len(filtered_stats[i].titles) > 0
    IN
    IF cfg.deduplication.enabled /\ ~has_filtered_news /\ ~has_new_rss THEN Skipped
    ELSE AfterDispatch(cfg, args.report_type, items_to_record, world.dispatched,
                       world.fails_at, world.push_raises)

\* ------------------------------------------------------------------------
\* the inputs the calls are checked on
\* ------------------------------------------------------------------------
MaxGroups == 2
MaxTitles == 2
MaxTime == 2
MaxCap == 2
MaxRanks == 3

Lit(w) == [word |-> w, is_regex |-> FALSE]
Re(w) == [word |-> w, is_regex |-> TRUE]

SeqsUpTo(S, n) == UNION {[1..k -> S] : k \in 0..n}
DistinctSeqsUpTo(S, n) ==
    {q \in SeqsUpTo(S, n) : \A i, j \in 1..Len(q) : i # j => q[i] # q[j]}

\* group bodies: OR of normal words; required and normal; both empty;
\* required only; regexes among the normal words (the first never matches a
\* lower-cased title)
BodyA == [required |-> <<>>, normal |-> <<Lit(<<"a">>)>>]
BodyAB == [required |-> <<Lit(<<"a">>)>>, normal |-> <<Lit(<<"B">>)>>]
BodyEmpty == [required |-> <<>>, normal |-> <<>>]
BodyB == [required |-> <<Lit(<<"B">>)>>, normal |-> <<>>]
BodyRe == [required |-> <<>>, normal |-> <<Re(<<"A">>), Re(<<"b">>)>>]
GroupBodies == {BodyA, BodyAB, BodyEmpty, BodyB, BodyRe}

GroupKeys == <<"g1", "g2", "g3">>

MkGroup(body, i, max_count, display_name) ==
    [required |-> body.required, normal |-> body.normal, group_key |-> GroupKeys[i],
     max_count |-> max_count, display_name |-> display_name]

\* rule sets: up to MaxGroups groups, keyed by their position
RuleSets ==
    {[i \in 1..Len(q) |-> MkGroup(q[i], i, 0, "")] : q \in SeqsUpTo(GroupBodies, MaxGroups)}

\* (filter_words, global_filters)
FilterChoices ==
    {<<<<>>, <<>>>>, <<<<Lit(<<"x">>)>>, <<>>>>, <<<<>>, <<Lit(<<"B">>)>>>>,
     <<<<Lit(<<"x">>)>>, <<Lit(<<"B">>)>>>>}

\* one source's titles of a snapshot, every title with the same data
TitlesDict(q, data) == [i \in 1..Len(q) |-> [key |-> q[i], val |-> data]]

BaseArgs ==
    [word_groups |-> <<>>, filter_words |-> <<>>, id_to_name |-> <<>>,
     title_info |-> <<>>, rank_threshold |-> DEFAULT_RANK_THRESHOLD,
     new_titles |-> <<>>, mode |-> "daily", global_filters |-> <<>>,
     weight_config |-> <<>>, max_news_per_keyword |-> 0,
     sort_by_position_first |-> FALSE, is_first_crawl_func |-> <<>>]

\* Matching: every rule set and filter choice against snapshots of one source
\* over the titles "A", "ab", "ax", "z": the empty one, each single title, and
\* some pairs.
MatchTitles == {<<"A">>, <<"a", "b">>, <<"a", "x">>, <<"z">>}
MatchSnapshots ==
    {<<>>} \cup {<<t>> : t \in MatchTitles}
        \cup {<<<<"a", "b">>, <<"A">>>>, <<<<"a", "x">>, <<"a", "b">>>>, <<<<"z">>, <<"A">>>>}

MatchInputs ==
    {[op |-> "hot",
      results |-> <<[key |-> "s1", val |-> TitlesDict(q, [ranks |-> <<1>>, url |-> "u"])]>>,
      args |-> [BaseArgs EXCEPT !.word_groups = wg, !.filter_words = f[1],
                                !.global_filters = f[2]]] :
        q \in MatchSnapshots, wg \in RuleSets,
        f \in FilterChoices}

\* Scoping: the modes against snapshots, histories and new-items indexes over
\* the sources s1, s2 and the titles "A", "b".
ScopeTitles == {<<"A">>, <<"b">>}
SnapData(t) == IF t = <<"A">> THEN [ranks |-> <<1, 4>>, url |-> "u"]
               ELSE [ranks |-> <<>>, url |-> "u"]
Info(t, last_time) ==
    IF t = <<"A">>
    THEN [first_time |-> 1, last_time |-> last_time, count |-> 2, ranks |-> <<3, 1>>,
          url |-> "h"]
    ELSE [first_time |-> last_time, last_time |-> last_time, count |-> 1, ranks |-> <<>>,
          url |-> "h"]

ScopeSnapshots ==
    {<<[key |-> "s1", val |-> [i \in 1..Len(q) |-> [key |-> q[i], val |-> SnapData(q[i])]]]>>
        \o s2 :
        q \in DistinctSeqsUpTo(ScopeTitles, MaxTitles),
        s2 \in {<<>>, <<[key |-> "s2", val |-> <<[key |-> <<"A">>, val |-> SnapData(<<"A">>)]>>]>>}}

\* a history: (s1, "A") unseen or last seen at 0..MaxTime, (s1, "b") unseen or
\* last seen at 1, (s2, "A") unseen or last seen at MaxTime with no ranks
\* recorded
HistS1(a, b) ==
    (IF a < 0 THEN <<>> ELSE <<[key |-> <<"A">>, val |-> Info(<<"A">>, a)]>>)
    \o (IF b < 0 THEN <<>> ELSE <<[key |-> <<"b">>, val |-> Info(<<"b">>, b)]>>)

ScopeHistories ==
    {(IF HistS1(a, b) = <<>> THEN <<>> ELSE <<[key |-> "s1", val |-> HistS1(a, b)]>>)
        \o (IF c < 0 THEN <<>>
            ELSE <<[key |-> "s2",
                    val |-> <<[key |-> <<"A">>,
                               val |-> [Info(<<"A">>, c) EXCEPT !.ranks = <<>>]]>>]>>) :
        a \in -1..MaxTime, b \in {-1, 1}, c \in {-1, MaxTime}}

NewData == [ranks |-> <<5>>, url |-> "n"]
ScopeNewTitles ==
    {<<>>,
     <<[key |-> "s1", val |-> <<[key |-> <<"A">>, val |-> NewData]>>]>>,
     <<[key |-> "s2", val |-> <<[key |-> <<"A">>, val |-> NewData]>>],
       [key |-> "s1", val |-> <<[key |-> <<"b">>, val |-> NewData]>>]>>}

\* (mode, is_first_crawl_func)
ModeChoices ==
    {<<"daily", <<>>>>, <<"current", <<>>>>, <<"current", <<FALSE>>>>,
     <<"incremental", <<>>>>, <<"incremental", <<TRUE>>>>, <<"incremental", <<FALSE>>>>}

ScopeInputs ==
    {[op |-> "hot",
      results |-> snap,
      args |-> [BaseArgs EXCEPT !.word_groups = wg, !.mode = m[1],
                                !.is_first_crawl_func = m[2], !.title_info = hist,
                                !.new_titles = new,
                                !.id_to_name = <<[key |-> "s1", val |-> "n1"]>>]] :
        snap \in ScopeSnapshots, hist \in ScopeHistories, new \in ScopeNewTitles,
        m \in ModeChoices, wg \in {<<>>, <<MkGroup(BodyA, 1, 0, "")>>}}

\* Sorting and caps: a group of the titles with "a" and a group of the titles
\* with "b", in either order, over four titles of varying ranks and counts.
SortRanks == {<<1>>, <<4>>, <<1, 4>>}
SortRuleSets(cap) ==
    {<<MkGroup(BodyA, 1, cap, ""), MkGroup(BodyB, 2, 0, "B")>>,
     <<MkGroup(BodyB, 1, 0, "B"), MkGroup(BodyA, 2, cap, "")>>}
\* (title_info, weight_config): no history and the default weights, or a
\* history that gives "ax" the count 3 and weights that ignore the count
SortHistories ==
    {<<<<>>, <<>>>>,
     <<<<[key |-> "s1", val |->
           <<[key |-> <<"a", "x">>, val |->
               [first_time |-> 1, last_time |-> 2, count |-> 3, ranks |-> <<>>,
                url |-> "h"]]>>]>>,
       <<[RANK_WEIGHT |-> 4, FREQUENCY_WEIGHT |-> 0, HOTNESS_WEIGHT |-> 3]>>>>}

SortInputs ==
    {[op |-> "hot",
      results |-> <<[key |-> "s1", val |->
                      <<[key |-> <<"A">>, val |-> [ranks |-> r1, url |-> "u"]],
                        [key |-> <<"b">>, val |-> [ranks |-> <<2>>, url |-> "u"]],
                        [key |-> <<"a", "x">>, val |-> [ranks |-> r2, url |-> "u"]],
                        [key |-> <<"a">>, val |-> [ranks |-> <<4>>, url |-> "u"]]>>]>>,
      args |-> [BaseArgs EXCEPT !.word_groups = wg, !.max_news_per_keyword = dflt,
                                !.sort_by_position_first = flag, !.title_info = h[1],
                                !.weight_config = h[2]]] :
        r1 \in SortRanks, r2 \in SortRanks,
        wg \in UNION {SortRuleSets(cap) : cap \in 0..MaxCap}, dflt \in 0..MaxCap,
        flag \in BOOLEAN, h \in SortHistories}

\* RSS: short item lists over a pool of items with shared and empty urls.
RssItem(t, u, p) == [title |-> t, feed_name |-> "f", url |-> u, published_at |-> p]
RssPool ==
    {RssItem(<<"A">>, "u1", 2), RssItem(<<"a", "b">>, "u2", 1), RssItem(<<"a", "x">>, "u1", 1),
     RssItem(<<"z">>, "", 2), RssItem(<<"a">>, "", 0)}
RssRuleSets ==
    {<<>>,
     <<MkGroup(BodyA, 1, 0, "")>>,
     <<MkGroup(BodyEmpty, 1, 0, ""), MkGroup(BodyA, 2, 0, "")>>,
     <<MkGroup(BodyAB, 1, 0, ""), MkGroup(BodyRe, 2, 1, "")>>,
     <<MkGroup(BodyB, 1, 0, ""), MkGroup(BodyA, 2, 1, "")>>}
RssNewItems == <<RssItem(<<"A">>, "u1", 2), RssItem(<<"a">>, "", 0)>>
\* (max_news_per_keyword, sort_by_position_first, new_items)
RssCapChoices ==
    {<<0, FALSE, <<>>>>, <<0, FALSE, RssNewItems>>, <<1, FALSE, RssNewItems>>,
     <<0, TRUE, <<>>>>}
RssBaseArgs ==
    [word_groups |-> <<>>, filter_words |-> <<>>, global_filters |-> <<>>,
     new_items |-> <<>>, max_news_per_keyword |-> 0, sort_by_position_first |-> FALSE,
     rank_threshold |-> 5]

RssInputs ==
    {[op |-> "rss",
      rss_items |-> items,
      args |-> [RssBaseArgs EXCEPT !.word_groups = wg, !.filter_words = f[1],
                                   !.global_filters = f[2], !.new_items = c[3],
                                   !.max_news_per_keyword = c[1],
                                   !.sort_by_position_first = c[2]]] :
        items \in DistinctSeqsUpTo(RssPool, MaxTitles), wg \in RssRuleSets,
        f \in FilterChoices, c \in RssCapChoices}

\* Weights: rank lists up to MaxRanks long.
RankValues == {2, 5, 12}
WeightConfigs ==
    {<<>>, <<[RANK_WEIGHT |-> 5, FREQUENCY_WEIGHT |-> 3, HOTNESS_WEIGHT |-> 2]>>,
     <<[RANK_WEIGHT |-> -4, FREQUENCY_WEIGHT |-> 3, HOTNESS_WEIGHT |-> 3]>>}
WeightInputs ==
    {[op |-> "weight",
      title_data |-> [ranks |-> r, count |-> c],
      rank_threshold |-> t,
      weight_config |-> w] :
        r \in SeqsUpTo(RankValues, MaxRanks), c \in {1, 3, 12}, t \in {3, 5},
        w \in WeightConfigs}

\* Regrouping: up to MaxGroups topic stats, their title lists drawn from a
\* pool where a title text recurs within a source, with other data, and in
\* another source.
RegroupTitle(t, s, r, c) == [title |-> t, source_name |-> s, ranks |-> r, count |-> c]
RegroupA1 == RegroupTitle(<<"A">>, "s1", <<1>>, 1)
RegroupA2 == RegroupTitle(<<"A">>, "s1", <<2, 3>>, 2)
RegroupB == RegroupTitle(<<"B">>, "s1", <<4>>, 1)
RegroupAs2 == RegroupTitle(<<"A">>, "s2", <<1>>, 1)
RegroupBs2 == RegroupTitle(<<"B">>, "s2", <<>>, 1)
RegroupTitleLists ==
    {<<>>, <<RegroupA1>>, <<RegroupA2>>, <<RegroupB, RegroupA1>>, <<RegroupAs2, RegroupB>>,
     <<RegroupAs2, RegroupBs2>>, <<RegroupA2, RegroupAs2>>, <<RegroupBs2, RegroupA1>>}
RegroupStats ==
    UNION {{[i \in 1..n |-> [word |-> GroupKeys[i], count |-> Len(q[i]), titles |-> q[i]]] :
               q \in [1..n -> RegroupTitleLists]} : n \in 0..MaxGroups}
RegroupInputs ==
    {[op |-> "regroup", keyword_stats |-> ks, weight_config |-> DefaultWeightConfig,
      rank_threshold |-> t] : ks \in RegroupStats, t \in {3, 5}}

\* fetch_data: a source id, bare or with an alias, and up to MaxRetries retries;
\* the client answers each request with any outcome
MaxRetries == 2
FetchTexts == {"text_success", "text_cache"}
Outcomes ==
    {[kind |-> "ok", text |-> t] : t \in FetchTexts}
        \cup {[kind |-> k, text |-> ""] :
                 k \in RetriedErrors \cup FinalErrors \cup UnhandledStatus}
IdInfos == {[tuple |-> FALSE, id |-> "s1", alias |-> ""], [tuple |-> TRUE, id |-> "s1", alias |-> "n1"]}
FetchInputs ==
    {[op |-> "fetch", id_info |-> i, max_retries |-> m] : i \in IdInfos, m \in 0..MaxRetries}

\* crawl_websites: one source with every item list up to MaxItems long, and two
\* sources (also the same id twice) with a few answers; an answer is None or
\* the payload fetch_data let through
MaxItems == 3
CrawlItem(t, u, p) == [dict |-> TRUE, title |-> t, url |-> u, pic |-> p]
NotADict == [dict |-> FALSE, title |-> <<>>, url |-> "", pic |-> ""]
ItemPool ==
    {CrawlItem(<<"A">>, "u", ""), CrawlItem(<<" ", "A">>, "", "img.png"),
     CrawlItem(<<"B">>, "", "x.js"), CrawlItem(<<" ">>, "", ""), NotADict}
Payload(items) == <<[iterable |-> TRUE, items |-> items]>>
ItemsNull == <<[iterable |-> FALSE, items |-> <<>>]>>
Answers == {<<>>, ItemsNull} \cup {Payload(items) : items \in SeqsUpTo(ItemPool, MaxItems)}
FewAnswers ==
    {<<>>, ItemsNull, Payload(<<CrawlItem(<<"A">>, "u", "")>>),
     Payload(<<CrawlItem(<<"B">>, "", "x.js"), CrawlItem(<<"B">>, "", "x.js")>>)}
IdS2 == [tuple |-> FALSE, id |-> "s2", alias |-> ""]
IdLists == {<<i, j>> : i \in IdInfos, j \in IdInfos \cup {IdS2}}
CrawlInputs ==
    {[op |-> "crawl", ids_list |-> <<i>>, answers |-> <<a>>] : i \in IdInfos, a \in Answers}
        \cup {[op |-> "crawl", ids_list |-> ids, answers |-> <<a, b>>] :
                 ids \in IdLists, a \in FewAnswers, b \in FewAnswers}

\* Deduplication: titles of which two share a url and one has none, in up to
\* MaxGroups stats, no title in two of them; new_titles absent, in its list form and in its dict form;
\* a few sets of hashes the storage holds as pushed.
DedupTitle(t, u, s) == [title |-> t, url |-> u, source_id |-> s]
DT1 == DedupTitle("A", "u1", "s1")
DT2 == DedupTitle("B", "u2", "s1")
DT3 == DedupTitle("C", "u1", "s2")
DT4 == DedupTitle("D", "", "s1")
DedupTitleLists == {<<>>, <<DT1>>, <<DT1, DT2>>, <<DT3>>, <<DT2, DT4>>, <<DT1, DT2, DT4>>}
DedupStats ==
    UNION {{[i \in 1..n |-> [word |-> GroupKeys[i], count |-> Len(q[i]), titles |-> q[i]]] :
               q \in {r \in [1..n -> DedupTitleLists] :
                         \A i, j \in 1..n : i # j => Range(r[i]) \cap Range(r[j]) = {}}} :
           n \in 0..MaxGroups}
NewTitlesChoices ==
    {<<>>,
     <<[form |-> "list",
        val |-> <<[source_id |-> "s1",
                   titles |-> <<[title |-> "A", url |-> "u1"], [title |-> "B", url |-> "u2"]>>],
                  [source_id |-> "s2", titles |-> <<[title |-> "C", url |-> "u1"]>>]>>]>>,
     <<[form |-> "dict",
        val |-> <<[key |-> "s1", val |-> <<[key |-> "A", val |-> [url |-> "u1"]]>>],
                  [key |-> "s2", val |-> <<[key |-> "C", val |-> [url |-> "u1"]]>>]>>]>>}
PushedChoices ==
    {{}, {<<"u1">>}, {<<"u2">>, <<"s1", ":", "D">>, <<"s1", ":", "A">>},
     {<<"u1">>, <<"u2">>, <<"s1", ":", "A">>, <<"s1", ":", "B">>, <<"s2", ":", "C">>,
      <<"s1", ":", "D">>}}
DedupConfig(e, u, n) == [enabled |-> e, use_url_hash |-> u, dedup_new_titles |-> n]
DedupConfigs ==
    {DedupConfig(FALSE, TRUE, TRUE), DedupConfig(TRUE, TRUE, TRUE),
     DedupConfig(TRUE, FALSE, TRUE), DedupConfig(TRUE, TRUE, FALSE)}
DedupReportInputs ==
    {[op |-> "dedup_report", dedup_config |-> c, pushed |-> p,
      report_data |-> [stats |-> st, new_titles |-> nt]] :
        c \in DedupConfigs, p \in PushedChoices, st \in DedupStats, nt \in NewTitlesChoices}
DedupRssItem(t, u, f) == [title |-> t, url |-> u, feed_id |-> f]
DedupRssPool ==
    {DedupRssItem("A", "u1", "f1"), DedupRssItem("B", "u2", "f1"),
     DedupRssItem("C", "u1", "f2"), DedupRssItem("D", "", "f1")}
DedupRssInputs ==
    {[op |-> "dedup_rss", dedup_config |-> c, pushed |-> p, rss_items |-> items] :
        c \in DedupConfigs, p \in PushedChoices \cup {{<<"f1", ":", "D">>}},
        items \in DistinctSeqsUpTo(DedupRssPool, MaxTitles)}

\* Notification: the configuration with and without a channel, the push
\* window and the once-per-day rule, the three modes, what there is to push,
\* and what the collaborators answer.
MaxFailAt == 2
NotifyConfig(enable, feishu, token, chat, window, dedup) ==
    [ENABLE_NOTIFICATION |-> enable, FEISHU_WEBHOOK_URL |-> feishu,
     DINGTALK_WEBHOOK_URL |-> "", WEWORK_WEBHOOK_URL |-> "",
     TELEGRAM_BOT_TOKEN |-> token, TELEGRAM_CHAT_ID |-> chat,
     EMAIL_FROM |-> "", EMAIL_PASSWORD |-> "", EMAIL_TO |-> "",
     NTFY_SERVER_URL |-> "", NTFY_TOPIC |-> "", BARK_URL |-> "", SLACK_WEBHOOK_URL |-> "",
     PUSH_WINDOW |-> window, deduplication |-> dedup]
NotifyChannels ==
    {<<TRUE, "hook", "", "">>, <<FALSE, "hook", "", "">>, <<TRUE, "", "", "">>,
     <<TRUE, "", "token", "">>, <<TRUE, "", "token", "chat">>}
PushWindow(enabled, once) == [ENABLED |-> enabled, ONCE_PER_DAY |-> once]
\* the window with what the push manager answers: in_time_range, has_pushed_today
NotifyWindows ==
    {<<PushWindow(FALSE, FALSE), TRUE, FALSE>>, <<PushWindow(FALSE, TRUE), TRUE, TRUE>>}
        \cup {<<PushWindow(TRUE, once), answers[1], answers[2]>> :
                  once \in BOOLEAN,
                  answers \in {<<TRUE, FALSE>>, <<FALSE, FALSE>>, <<TRUE, TRUE>>}}
NotifyStat(word, titles) == [word |-> word, count |-> Len(titles), titles |-> titles]
NotifyNewTitles == <<<<[key |-> "s1", val |-> <<[key |-> "A", val |-> [url |-> "u1"]]>>]>>>>
NotifyNewList ==
    <<[form |-> "list",
       val |-> <<[source_id |-> "s1", titles |-> <<[title |-> "A", url |-> "u1"]>>]>>]>>
NotifyContent(stats, new_titles, rss_items, rss_raw_items, report_new) ==
    [stats |-> stats, new_titles |-> new_titles, rss_items |-> rss_items,
     rss_raw_items |-> rss_raw_items,
     report_data |-> [stats |-> stats, new_titles |-> report_new]]
NotifyRssStats == <<NotifyStat("r1", <<DedupRssItem("A", "u1", "f1")>>)>>
NotifyContents ==
    {NotifyContent(<<>>, <<>>, <<>>, <<>>, <<>>),
     NotifyContent(<<NotifyStat("g1", <<DT1, DT2>>)>>, NotifyNewTitles, <<>>, <<>>,
                   NotifyNewList),
     NotifyContent(<<>>, <<>>, NotifyRssStats,
                   <<DedupRssItem("A", "u1", "f1"), DedupRssItem("B", "u2", "f1")>>, <<>>),
     NotifyContent(<<NotifyStat("g1", <<DT2, DT4>>)>>, <<>>, NotifyRssStats,
                   <<DedupRssItem("A", "u1", "f1")>>, <<>>),
     NotifyContent(<<>>, <<>>, NotifyRssStats, <<>>, <<>>),
     NotifyContent(<<NotifyStat("g1", <<>>)>>, NotifyNewTitles, <<>>, <<>>, NotifyNewList),
     NotifyContent(<<NotifyStat("g1", <<DT1>>)>>, <<>>, <<>>, <<>>, <<>>)}
NotifyPushed == PushedChoices \ {{<<"u2">>, <<"s1", ":", "D">>, <<"s1", ":", "A">>}}
NotifyInputs ==
    {[op |-> "notify",
      cfg |-> NotifyConfig(ch[1], ch[2], ch[3], ch[4], w[1], dedup),
      args |-> [mode |-> mode, report_type |-> "daily", stats |-> c.stats,
                new_titles |-> c.new_titles, rss_items |-> c.rss_items,
                rss_raw_items |-> c.rss_raw_items],
      world |-> [in_time_range |-> w[2], has_pushed_today |-> w[3],
                 report_data |-> c.report_data, pushed |-> p]] :
        ch \in NotifyChannels, w \in NotifyWindows,
        dedup \in {DedupConfig(FALSE, TRUE, TRUE), DedupConfig(TRUE, TRUE, TRUE)},
        mode \in {"incremental", "current", "daily"}, c \in NotifyContents, p \in NotifyPushed}
\* what dispatch_all does: raises, or returns None, no channel, failed
\* channels only, or a channel that succeeded
DispatchOutcomes ==
    {[raised |-> TRUE, results |-> <<>>],
     [raised |-> FALSE, results |-> <<>>],
     [raised |-> FALSE, results |-> <<<<>>>>],
     [raised |-> FALSE, results |-> <<<<[key |-> "feishu", val |-> FALSE]>>>>],
     [raised |-> FALSE,
      results |-> <<<<[key |-> "feishu", val |-> FALSE], [key |-> "telegram", val |-> TRUE]>>>>]}

Inputs ==
    MatchInputs \cup ScopeInputs \cup SortInputs \cup RssInputs \cup WeightInputs
        \cup RegroupInputs

\* ------------------------------------------------------------------------
\* the state machine: an input is drawn, and the function it is for is called
\* once and then once again on the same input
\* ------------------------------------------------------------------------
vars == <<input, output, prev_output, pc, processed_titles, attempt, responses>>

NoOutput == [none |-> TRUE]

\* nothing has been called yet
Fresh ==
    /\ output = NoOutput
    /\ prev_output = NoOutput
    /\ pc = "ready"
    /\ processed_titles = {}
    /\ attempt = 0
    /\ responses = <<>>

Init == input \in Inputs /\ Fresh

Called ==
    /\ pc \in {"ready", "once"}
    /\ pc' = IF pc = "ready" THEN "once" ELSE "twice"
    /\ prev_output' = output
    /\ UNCHANGED <<input, attempt, responses>>

CountWordFrequency ==
    /\ input.op = "hot"
    /\ Called
    /\ LET r == count_word_frequency(input.results, input.args) IN
        /\ output' = [stats |-> r.stats, total_titles |-> r.total_titles,
                      matched_count |-> r.matched_count]
        /\ processed_titles' = r.processed_titles

CountRssFrequency ==
    /\ input.op = "rss"
    /\ Called
    /\ output' = count_rss_frequency(input.rss_items, input.args)
    /\ UNCHANGED processed_titles

CalculateNewsWeight ==
    /\ input.op = "weight"
    /\ Called
    /\ output' = [weight |-> calculate_news_weight(
                                input.title_data, input.rank_threshold,
                                IF input.weight_config = <<>> THEN DefaultWeightConfig
                                ELSE input.weight_config[1])]
    /\ UNCHANGED processed_titles

ConvertKeywordStats ==
    /\ input.op = "regroup"
    /\ Called
    /\ output' = [stats |-> convert_keyword_stats_to_platform_stats(
                               input.keyword_stats, input.weight_config,
                               input.rank_threshold)]
    /\ UNCHANGED processed_titles

Next ==
    \/ CountWordFrequency
    \/ CountRssFrequency
    \/ CalculateNewsWeight
    \/ ConvertKeywordStats

Spec == Init /\ [][Next]_vars

\* ------------------------------------------------------------------------
\* the fetcher: fetch_data, one attempt of its loop at a time
\* ------------------------------------------------------------------------
\* lines 90-170: one pass of the for loop; responses is the log of what the
\* client answered
FetchAttempt ==
    /\ input.op = "fetch"
    /\ pc \in {"ready", "fetching"}
    /\ attempt <= input.max_retries
    /\ \E outcome \in Outcomes :
          /\ responses' = Append(responses, outcome)
          /\ IF ~IsSuccess(outcome) /\ GoesOn(outcome, attempt, input.max_retries)
             THEN /\ attempt' = attempt + 1
                  /\ pc' = "fetching"
                  /\ UNCHANGED output
             ELSE /\ output' = FetchReturn(outcome, input.id_info)
                  /\ pc' = "once"
                  /\ UNCHANGED attempt
    /\ UNCHANGED <<input, prev_output, processed_titles>>

\* crawl_websites as a whole; found are the image tasks that end with an image
CrawlWebsites ==
    /\ input.op = "crawl"
    /\ pc = "ready"
    /\ \E found \in SUBSET EnrichTasks(crawl_websites(input.ids_list, input.answers, {}).results) :
          output' = crawl_websites(input.ids_list, input.answers, found)
    /\ pc' = "once"
    /\ UNCHANGED <<input, prev_output, processed_titles, attempt, responses>>

FetcherInit == input \in FetchInputs \cup CrawlInputs /\ Fresh

FetcherNext == FetchAttempt \/ CrawlWebsites

\* the event loop resumes the coroutine when the request or the sleep it
\* awaits is over
FetcherSpec == FetcherInit /\ [][FetcherNext]_vars /\ WF_vars(FetchAttempt)

\* ------------------------------------------------------------------------
\* the context: the deduplication of what is about to be pushed
\* ------------------------------------------------------------------------
DeduplicateReportData ==
    /\ input.op = "dedup_report"
    /\ pc = "ready"
    /\ output' = deduplicate_report_data(input.dedup_config, input.report_data, input.pushed)
    /\ pc' = "once"
    /\ UNCHANGED <<input, prev_output, processed_titles, attempt, responses>>

DeduplicateRssData ==
    /\ input.op = "dedup_rss"
    /\ pc = "ready"
    /\ output' = deduplicate_rss_data(input.dedup_config, input.rss_items, input.pushed)
    /\ pc' = "once"
    /\ UNCHANGED <<input, prev_output, processed_titles, attempt, responses>>

\* coordinator.py 70-182: one call, with what dispatch_all and the recording
\* calls do chosen by the world
SendNotificationIfNeeded ==
    /\ input.op = "notify"
    /\ pc = "ready"
    /\ \E dispatched \in DispatchOutcomes, fails_at \in 0..MaxFailAt, push_raises \in BOOLEAN :
           output' = send_notification_if_needed(
                         input.cfg, input.args,
                         [in_time_range |-> input.world.in_time_range,
                          has_pushed_today |-> input.world.has_pushed_today,
                          report_data |-> input.world.report_data,
                          pushed |-> input.world.pushed,
                          dispatched |-> dispatched, fails_at |-> fails_at,
                          push_raises |-> push_raises])
    /\ pc' = "once"
    /\ UNCHANGED <<input, prev_output, processed_titles, attempt, responses>>

ContextInit == input \in DedupReportInputs \cup DedupRssInputs \cup NotifyInputs /\ Fresh

ContextNext == DeduplicateReportData \/ DeduplicateRssData \/ SendNotificationIfNeeded

ContextSpec == ContextInit /\ [][ContextNext]_vars

\* ------------------------------------------------------------------------
\* what the claims speak of
\* ------------------------------------------------------------------------
HotDone == input.op = "hot" /\ pc # "ready"
RssDone == input.op = "rss" /\ pc # "ready"
WeightDone == input.op = "weight" /\ pc # "ready"
StatsDone == HotDone \/ RssDone

\* the total the call returned
TotalConsidered == IF input.op = "hot" THEN output.total_titles ELSE output.total_items

\* places (stat, title) of the returned stats
Emitted ==
    UNION {{<<i, k>> : k \in 1..Len(output.stats[i].titles)} : i \in 1..Len(output.stats)}
EmittedAt(e) == output.stats[e[1]].titles[e[2]]
SumCounts == SumSeq([i \in 1..Len(output.stats) |-> output.stats[i].count])

SourceName(source_id) ==
    IF HasKey(input.args.id_to_name, source_id) THEN Get(input.args.id_to_name, source_id)
    ELSE source_id

\* (source, title) pairs of a snapshot or index
Pairs(d) == UNION {{<<d[i].key, t>> : t \in Keys(d[i].val)} : i \in 1..Len(d)}

\* the titles given to the call
InputTitles ==
    IF input.op = "hot"
    THEN {p[2] : p \in Pairs(input.results) \cup Pairs(input.args.new_titles)}
    ELSE {input.rss_items[i].title : i \in 1..Len(input.rss_items)}

MatchesFilterWord(t) == AnyMatches(input.args.filter_words, Lower(t))
MatchesGlobalFilter(t) == AnyMatches(input.args.global_filters, Lower(t))

\* the declared group a stat belongs to
DeclaredGroup(stat) == input.args.word_groups[stat.position + 1]

\* ------------------------------------------------------------------------
\* the claims
\* ------------------------------------------------------------------------

\* C1: after count_word_frequency, no (source, title) stands at two places of
\* the returned stats, neither in two groups nor twice in one, and the counts
\* of all stats sum to at most total_considered.
C1_AtMostOneGroup ==
    HotDone =>
        /\ SumCounts <= output.total_titles
        /\ \A e, f \in Emitted :
              e # f => <<EmittedAt(e).source_name, EmittedAt(e).title>>
                          # <<EmittedAt(f).source_name, EmittedAt(f).title>>

\* a title that two declared groups would take was put in one, beside a
\* title that none took
C1_Witness ==
    /\ HotDone
    /\ SumCounts < output.total_titles
    /\ \E e \in Emitted :
          Cardinality({i \in 1..Len(input.args.word_groups) :
              GroupCondition(input.args.word_groups[i], Lower(EmittedAt(e).title))}) >= 2

\* the titles of the input that no filter word and no global filter matches
NotExcludedInputs ==
    IF input.op = "hot"
    THEN Cardinality({p \in Pairs(input.results) \cup Pairs(input.args.new_titles) :
                         ~MatchesFilterWord(p[2]) /\ ~MatchesGlobalFilter(p[2])})
    ELSE Cardinality({i \in 1..Len(input.rss_items) :
                         /\ ~MatchesFilterWord(input.rss_items[i].title)
                         /\ ~MatchesGlobalFilter(input.rss_items[i].title)})

\* C2 as claimed: a title that matches a filter word or a global filter is in
\* no stat's titles and adds to no count, in count_word_frequency and in
\* count_rss_frequency.
C2_ExcludeWins ==
    StatsDone =>
        /\ \A e \in Emitted : /\ ~MatchesFilterWord(EmittedAt(e).title)
                              /\ ~MatchesGlobalFilter(EmittedAt(e).title)
        /\ SumCounts <= NotExcludedInputs

\* the filters that apply: the global filters always, the filter words when
\* word groups are configured
Excluded(t) ==
    \/ MatchesGlobalFilter(t)
    \/ input.args.word_groups # <<>> /\ MatchesFilterWord(t)

\* C2 amended: a title that matches a global filter, or, when at least one word
\* group is configured, a filter word, is in no stat's titles and adds to no
\* count, in count_word_frequency and in count_rss_frequency.
C2_ExcludeWinsAmended ==
    StatsDone =>
        /\ \A e \in Emitted : ~Excluded(EmittedAt(e).title)
        /\ SumCounts <= Cardinality(
              IF input.op = "hot"
              THEN {p \in Pairs(input.results) \cup Pairs(input.args.new_titles) :
                       ~Excluded(p[2])}
              ELSE {i \in 1..Len(input.rss_items) : ~Excluded(input.rss_items[i].title)})

\* a title that a configured group would take and a filter excludes, beside a
\* title that was counted
C2_Witness ==
    /\ HotDone
    /\ input.args.word_groups # <<>>
    /\ SumCounts > 0
    /\ \E t \in InputTitles :
          /\ Excluded(t)
          /\ \E i \in 1..Len(input.args.word_groups) :
                GroupCondition(input.args.word_groups[i], Lower(t))

\* the condition of a group as C3 states it
C3Holds(group, t) ==
    IF group.required # <<>> THEN AllMatch(group.required, Lower(t))
    ELSE group.normal # <<>> /\ AnyMatches(group.normal, Lower(t))

\* the position of the first declared group whose condition holds, -1 if none
C3FirstGroup(t) ==
    LET hits == {i \in 1..Len(input.args.word_groups) :
                    C3Holds(input.args.word_groups[i], t)}
    IN IF hits = {} THEN -1 ELSE (CHOOSE i \in hits : \A j \in hits : i <= j) - 1

C3HoldsBoth(group, t) ==
    /\ group.required # <<>> => AllMatch(group.required, Lower(t))
    /\ group.normal # <<>> => AnyMatches(group.normal, Lower(t))

C3FirstGroupBoth(t) ==
    LET hits == {i \in 1..Len(input.args.word_groups) :
                    C3HoldsBoth(input.args.word_groups[i], t)}
    IN IF hits = {} THEN -1 ELSE (CHOOSE i \in hits : \A j \in hits : i <= j) - 1

C4_IncrementalOnlyNew ==
    (/\ HotDone
     /\ input.args.mode = "incremental"
     /\ input.args.is_first_crawl_func = <<FALSE>>) =>
        /\ \A e \in Emitted :
              \E p \in Pairs(input.args.new_titles) :
                  /\ SourceName(p[1]) = EmittedAt(e).source_name
                  /\ p[2] = EmittedAt(e).title
        /\ output.total_titles = Cardinality(Pairs(input.args.new_titles))

\* a title of new_titles was emitted while the snapshot held another title,
\* absent from new_titles, that some group takes
C4_Witness ==
    /\ HotDone
    /\ input.args.mode = "incremental"
    /\ input.args.is_first_crawl_func = <<FALSE>>
    /\ Emitted # {}
    /\ \E p \in Pairs(input.results) \ Pairs(input.args.new_titles) :
          /\ ~Excluded(p[2])
          /\ C3FirstGroupBoth(p[2]) >= 0

\* the last_time the history records for a (source, title), 0 when it records
\* none
HistoryLastTime(p) ==
    LET h == input.args.title_info IN
    IF HasKey(h, p[1]) /\ HasKey(Get(h, p[1]), p[2])
    THEN Get(Get(h, p[1]), p[2]).last_time ELSE 0

\* C5: in current mode every title of a returned stat has as last_time the
\* greatest last_time of the history (empty, here 0, when the history records
\* no time): no title last seen in an older batch is emitted.
C5_CurrentBatchOnly ==
    (HotDone /\ input.args.mode = "current") =>
        \A e \in Emitted :
            /\ EmittedAt(e).last_time = LatestTime(input.args.title_info)
            /\ \A p \in Pairs(input.args.title_info) :
                  HistoryLastTime(p) <= EmittedAt(e).last_time

\* a title of the latest batch was emitted and a title of the snapshot that
\* some group takes, last seen in an older batch, was left out
C5_Witness ==
    /\ HotDone
    /\ input.args.mode = "current"
    /\ Emitted # {}
    /\ \E p \in Pairs(input.results) :
          /\ HistoryLastTime(p) > 0
          /\ HistoryLastTime(p) < LatestTime(input.args.title_info)
          /\ ~Excluded(p[2])
          /\ C3FirstGroupBoth(p[2]) >= 0
          /\ \A e \in Emitted :
                <<EmittedAt(e).source_name, EmittedAt(e).title>> # <<SourceName(p[1]), p[2]>>

\* the max_count of the group a stat is for (0 for the synthetic group)
StatMaxCount(stat) ==
    IF input.args.word_groups = <<>> THEN 0 ELSE DeclaredGroup(stat).max_count

\* the cap of a stat as C6 defines it
StatCap(stat) ==
    IF StatMaxCount(stat) # 0 THEN StatMaxCount(stat)
    ELSE input.args.max_news_per_keyword

\* C6: in the stats of count_word_frequency and of count_rss_frequency, a stat
\* whose cap (the group's max_count when non-zero, else max_news_per_keyword)
\* is positive has at most that many titles, and a stat whose group's max_count
\* and max_news_per_keyword are both 0 has all its titles, as many as its count.
C6_CapLaw ==
    StatsDone =>
        \A i \in 1..Len(output.stats) :
            LET stat == output.stats[i] IN
            /\ StatCap(stat) > 0 => Len(stat.titles) <= StatCap(stat)
            /\ (StatMaxCount(stat) = 0 /\ input.args.max_news_per_keyword = 0) =>
                  Len(stat.titles) = stat.count

\* a stat that counted more titles than its cap, the cap coming from the
\* group's max_count, holds exactly cap titles
C6_Witness ==
    /\ StatsDone
    /\ \E i \in 1..Len(output.stats) :
          LET stat == output.stats[i] IN
          /\ StatMaxCount(stat) > 0
          /\ stat.count > StatCap(stat)
          /\ Len(stat.titles) = StatCap(stat)

\* the weight configuration of the call
GivenWeightConfig ==
    IF input.weight_config = <<>> THEN DefaultWeightConfig ELSE input.weight_config[1]

\* the weight of an item that differs from the input's only in its ranks
WeightWithRanks(ranks) ==
    calculate_news_weight([input.title_data EXCEPT !.ranks = ranks],
                          input.rank_threshold, GivenWeightConfig)

\* C7 as claimed, for the default weights: no item with a non-empty rank list,
\* the same count and the same rank_threshold whose minimum rank is greater
\* has a greater weight than the item of the call.
C7_MinRankMonotone ==
    (WeightDone /\ input.title_data.ranks # <<>> /\ input.weight_config = <<>>) =>
        \A r2 \in SeqsUpTo(RankValues, MaxRanks) \ {<<>>} :
            MinSeq(input.title_data.ranks) < MinSeq(r2) =>
                ~FracLess(output.weight, WeightWithRanks(r2))

\* r1 is as long as r2 and no rank of r1 is greater than the rank of r2 at
\* the same place
RanksNoWorse(r1, r2) ==
    /\ Len(r1) = Len(r2)
    /\ \A i \in 1..Len(r1) : r1[i] <= r2[i]

\* C7 amended: with weights that are not negative, no item with the same
\* count, the same rank_threshold and a rank list of the same length, each rank
\* of which is at least the rank of the call's item at the same place, has a
\* greater weight than the item of the call.
C7_PointwiseMonotone ==
    (/\ WeightDone
     /\ input.title_data.ranks # <<>>
     /\ GivenWeightConfig.RANK_WEIGHT >= 0
     /\ GivenWeightConfig.FREQUENCY_WEIGHT >= 0
     /\ GivenWeightConfig.HOTNESS_WEIGHT >= 0) =>
        \A r2 \in SeqsUpTo(RankValues, MaxRanks) :
            RanksNoWorse(input.title_data.ranks, r2) =>
                ~FracLess(output.weight, WeightWithRanks(r2))

\* an item of several ranks weighs strictly more than one whose ranks are no
\* better at any place and worse at one
C7_Witness ==
    /\ WeightDone
    /\ Len(input.title_data.ranks) >= 2
    /\ GivenWeightConfig.RANK_WEIGHT >= 0
    /\ \E r2 \in SeqsUpTo(RankValues, MaxRanks) :
          /\ RanksNoWorse(input.title_data.ranks, r2)
          /\ MinSeq(input.title_data.ranks) < MinSeq(r2)
          /\ FracLess(WeightWithRanks(r2), output.weight)

\* the call of the example: ranks [2, 2, 5], count 3, rank_threshold 3 and the
\* default weights
C8Example ==
    /\ WeightDone
    /\ input.title_data = [ranks |-> <<2, 2, 5>>, count |-> 3]
    /\ input.rank_threshold = 3
    /\ input.weight_config = <<>>

\* the fraction is within tol thousandths of the value of so many thousandths
Near(frac, thousandths, tol) ==
    LET d == 1000 * frac.num - thousandths * frac.den
    IN (IF d >= 0 THEN d ELSE -d) <= tol * frac.den

\* C8 as claimed: for the example the rank component is 7.33, the frequency
\* component 30, the hotness component 66.7 and the weight about 31.9 (each to
\* half a unit of its last digit).
C8_ExampleAsStated ==
    C8Example =>
        /\ Near(_calculate_rank_weight(input.title_data.ranks), 7330, 5)
        /\ _calculate_frequency_weight(input.title_data.count) = 30
        /\ Near(_calculate_hotness_weight(input.title_data.ranks, input.rank_threshold),
                66700, 50)
        /\ Near(output.weight, 31900, 50)

\* C8 amended: for the example the rank component is 8 (the mean of 9, 9 and
\* 6), the frequency component 30, the hotness component 66.7 (200/3) and the
\* weight 32.2.
C8_ExampleAmended ==
    C8Example =>
        /\ FracEq(_calculate_rank_weight(input.title_data.ranks), [num |-> 8, den |-> 1])
        /\ _calculate_frequency_weight(input.title_data.count) = 30
        /\ FracEq(_calculate_hotness_weight(input.title_data.ranks, input.rank_threshold),
                  [num |-> 200, den |-> 3])
        /\ Near(_calculate_hotness_weight(input.title_data.ranks, input.rank_threshold),
                66700, 50)
        /\ FracEq(output.weight, [num |-> 322, den |-> 10])

\* the example was computed
C8_Witness == C8Example /\ output.weight.num > 0

\* C9: with no word groups, no filter words and no global filters,
\* count_word_frequency returns one stat, that of the synthetic group, whose
\* count is total_titles and whose percentage is 100.00 when total_titles > 0,
\* in every mode.
C9_EmptyRuleSet ==
    (/\ HotDone
     /\ input.args.word_groups = <<>>
     /\ input.args.filter_words = <<>>
     /\ input.args.global_filters = <<>>) =>
        /\ Len(output.stats) = 1
        /\ output.stats[1].word = ALL_NEWS
        /\ output.stats[1].count = output.total_titles
        /\ output.total_titles > 0 => output.stats[1].percentage = 10000

\* an empty rule set, outside daily mode, over a working set of two titles
C9_Witness ==
    /\ HotDone
    /\ input.args.word_groups = <<>>
    /\ input.args.filter_words = <<>>
    /\ input.args.global_filters = <<>>
    /\ input.args.mode # "daily"
    /\ output.total_titles >= 2
    /\ Len(output.stats) = 1
    /\ output.stats[1].count = output.total_titles

WorkingDict ==
    IF input.args.mode = "incremental" /\ input.args.is_first_crawl_func = <<FALSE>>
    THEN input.args.new_titles ELSE input.results

\* the data a dict holds for a (source, title) pair of it
ItemData(d, p) == Get(Get(d, p[1]), p[2])

\* the ranks a summary shows for an item's ranks
ShownRanks(ranks) == IF ranks = <<>> THEN <<DEFAULT_RANK>> ELSE ranks

\* C11: with no history (title_info None or empty) count_word_frequency returns
\* in every mode, having worked on all the items (total_titles counts them
\* all), and every title of a stat has the ranks (the sentinel when it has
\* none) and url of its item, count 1 and empty first and last times.
C11_AbsentHistory ==
    (HotDone /\ input.args.title_info = <<>>) =>
        /\ output # NoOutput
        /\ output.total_titles = Cardinality(Pairs(WorkingDict))
        /\ \A e \in Emitted :
              LET t == EmittedAt(e) IN
              /\ t.count = 1
              /\ t.first_time = 0 /\ t.last_time = 0 /\ t.time_display = <<>>
              /\ \E p \in Pairs(WorkingDict) :
                    /\ SourceName(p[1]) = t.source_name /\ p[2] = t.title
                    /\ t.ranks = ShownRanks(ItemData(WorkingDict, p).ranks)
                    /\ t.url = ItemData(WorkingDict, p).url

\* current mode without history: titles of the snapshot were emitted
C11_Witness ==
    /\ HotDone
    /\ input.args.title_info = <<>>
    /\ input.args.mode = "current"
    /\ Cardinality(Emitted) >= 2

\* the accept/reject decision for a title under the rule set of the call: 0
\* for a rejection, else the index of the group the acceptance rests on
ClassifyInput(t) ==
    Classify(t, input.args.word_groups,
             IF input.args.word_groups = <<>> THEN <<>> ELSE input.args.filter_words,
             input.args.global_filters)

\* the RSS items that the URL deduplication lets through
RssKept ==
    {i \in 1..Len(input.rss_items) :
        \/ input.rss_items[i].url = ""
        \/ \A j \in 1..(i - 1) : input.rss_items[j].url # input.rss_items[i].url}

\* C12 as claimed: the number of accepted titles is the sum of the counts of
\* the stats (matched_count in count_word_frequency, the accepted items that
\* pass deduplication in count_rss_frequency), and every title of a stat is in
\* the stat of the group its acceptance rests on.
C12_InclusionAgrees ==
    /\ HotDone => output.matched_count = SumCounts
    /\ RssDone =>
          SumCounts = Cardinality({i \in RssKept :
                                      ClassifyInput(input.rss_items[i].title) # 0})
    /\ StatsDone =>
          \A e \in Emitted :
              output.stats[e[1]].position + 1 = ClassifyInput(EmittedAt(e).title)

\* C13 as claimed: with word groups configured, a stat of a group whose
\* required and normal lists are both empty has count 0 and no titles, in
\* count_word_frequency and in count_rss_frequency.
C13_EmptyGroupNeverMatches ==
    (StatsDone /\ input.args.word_groups # <<>>) =>
        \A i \in 1..Len(output.stats) :
            LET group == DeclaredGroup(output.stats[i]) IN
            (group.required = <<>> /\ group.normal = <<>>) =>
                output.stats[i].count = 0 /\ output.stats[i].titles = <<>>

\* C14: with no word groups, no title of the catch-all stat matches a global
\* filter, and the stat counts every item worked on that no global filter
\* matches, whether or not a filter word matches it (the snapshot's titles in
\* daily mode, the items that pass deduplication in count_rss_frequency).
C14_CatchAllFilters ==
    (StatsDone /\ input.args.word_groups = <<>>) =>
        /\ \A e \in Emitted : ~MatchesGlobalFilter(EmittedAt(e).title)
        /\ (input.op = "hot" /\ input.args.mode = "daily") =>
              SumCounts = Cardinality({p \in Pairs(input.results) :
                                          ~MatchesGlobalFilter(p[2])})
        /\ (input.op = "rss" /\ input.rss_items # <<>>) =>
              SumCounts = Cardinality({i \in RssKept :
                                          ~MatchesGlobalFilter(input.rss_items[i].title)})

\* no word groups, a filter word and a global filter: a title that the filter
\* word matches is in the catch-all stat and a title that the global filter
\* matches is not
C14_Witness ==
    /\ StatsDone
    /\ input.args.word_groups = <<>>
    /\ \E e \in Emitted : MatchesFilterWord(EmittedAt(e).title)
    /\ \E t \in InputTitles :
          /\ MatchesGlobalFilter(t)
          /\ \A e \in Emitted : EmittedAt(e).title # t

\* the greatest last_time the history records for the sources of the
\* snapshot, 0 when it records none
ActiveLatestTime ==
    LET times == {HistoryLastTime(p) :
                    p \in {q \in Pairs(input.args.title_info) :
                              q[1] \in Keys(input.results)}}
    IN IF times = {} THEN 0 ELSE CHOOSE m \in times : \A x \in times : x <= m

\* C15 as claimed: in current mode, when the history records a time for a
\* source of the snapshot, total_titles counts exactly the snapshot items
\* whose history record has the greatest last_time recorded for the sources of
\* the snapshot.
C15_CurrentScopeActiveSources ==
    (HotDone /\ input.args.mode = "current" /\ ActiveLatestTime > 0) =>
        output.total_titles =
            Cardinality({p \in Pairs(input.results) :
                            HistoryLastTime(p) = ActiveLatestTime})

\* the snapshot items whose history record has the greatest last_time of the
\* whole history
CurrentBatch ==
    {p \in Pairs(input.results) :
        HistoryLastTime(p) = LatestTime(input.args.title_info)}

\* C15 amended: in current mode, when the history records a time, the items
\* worked on are exactly the snapshot items whose history record has the
\* greatest last_time of the whole history, sources outside the snapshot
\* included: total_titles counts them, every title of a stat is one of them
\* and, with no word groups, each of them is in the catch-all stat; is_new is
\* not forced to true (it is membership in new_titles).
C15_CurrentScope ==
    (HotDone /\ input.args.mode = "current" /\ LatestTime(input.args.title_info) > 0) =>
        /\ output.total_titles = Cardinality(CurrentBatch)
        /\ \A e \in Emitted :
              /\ \E p \in CurrentBatch :
                    /\ SourceName(p[1]) = EmittedAt(e).source_name
                    /\ p[2] = EmittedAt(e).title
              /\ EmittedAt(e).is_new =>
                    \E p \in Pairs(input.args.new_titles) :
                        /\ SourceName(p[1]) = EmittedAt(e).source_name
                        /\ p[2] = EmittedAt(e).title
        /\ input.args.word_groups = <<>> => SumCounts = Cardinality(CurrentBatch)

\* the snapshot holds an item of the latest batch, an item last seen earlier
\* and an item without a history record
C15_Witness ==
    /\ HotDone
    /\ input.args.mode = "current"
    /\ LatestTime(input.args.title_info) > 0
    /\ Emitted # {}
    /\ \E p, q \in Pairs(input.results) \ CurrentBatch :
          /\ HistoryLastTime(p) > 0
          /\ ~HasHistory(input.args, q[1], q[2])

\* new_titles lists the title of a summary for the summary's source
ListedAsNew(t) ==
    \E p \in Pairs(input.args.new_titles) :
        SourceName(p[1]) = t.source_name /\ p[2] = t.title

\* C16: every title of a stat of count_word_frequency has is_new true in
\* incremental mode, and in daily and current mode has is_new true exactly when
\* new_titles lists the title for its source.
C16_IsNew ==
    HotDone =>
        \A e \in Emitted :
            EmittedAt(e).is_new =
                (input.args.mode = "incremental" \/ ListedAsNew(EmittedAt(e)))

\* outside incremental mode a listed title and an unlisted one were emitted
C16_Witness ==
    /\ HotDone
    /\ input.args.mode # "incremental"
    /\ input.args.new_titles # <<>>
    /\ \E e, f \in Emitted : EmittedAt(e).is_new /\ ~EmittedAt(f).is_new

\* in incremental mode a title that new_titles does not list was emitted
C16_WitnessIncremental ==
    /\ HotDone
    /\ input.args.mode = "incremental"
    /\ \E e \in Emitted : EmittedAt(e).is_new /\ ~ListedAsNew(EmittedAt(e))

\* the history has a record for the (source, title) pair
HasRecord(p) ==
    /\ HasKey(input.args.title_info, p[1])
    /\ HasKey(Get(input.args.title_info, p[1]), p[2])

\* the summary is made of the times, count and url of the pair's history
\* record when there is one, of the item's url, count 1 and empty times
\* otherwise, and shows the given ranks
SummaryOf(t, p, ranks) ==
    LET item == ItemData(WorkingDict, p)
        info == ItemData(input.args.title_info, p)
    IN /\ t.ranks = ShownRanks(ranks)
       /\ IF HasRecord(p)
          THEN /\ t.first_time = info.first_time /\ t.last_time = info.last_time
               /\ t.count = info.count /\ t.url = info.url
          ELSE /\ t.first_time = 0 /\ t.last_time = 0
               /\ t.count = 1 /\ t.url = item.url

HotWeight(t) ==
    calculate_news_weight(t, input.args.rank_threshold,
                          IF input.args.weight_config = <<>> THEN DefaultWeightConfig
                          ELSE input.args.weight_config[1])

\* a may stand right before b under the key (-weight, minimum rank, -count)
InTitleOrder(a, b) ==
    \/ FracLess(HotWeight(b), HotWeight(a))
    \/ FracEq(HotWeight(a), HotWeight(b)) /\ MinSeq(a.ranks) < MinSeq(b.ranks)
    \/ /\ FracEq(HotWeight(a), HotWeight(b))
       /\ MinSeq(a.ranks) = MinSeq(b.ranks)
       /\ a.count >= b.count

\* what the call returns when nothing is capped
UncappedStats ==
    count_word_frequency(
        input.results,
        [input.args EXCEPT
            !.max_news_per_keyword = 0,
            !.word_groups = [i \in 1..Len(@) |-> [@[i] EXCEPT !.max_count = 0]]]).stats

\* C18: in every stat of count_word_frequency consecutive titles a, b have
\* weight(a) > weight(b), or equal weights and min rank(a) < min rank(b), or
\* both equal and count(a) >= count(b); and the titles are the first ones of
\* the list the same call returns for the group when nothing is capped.
C18_TitleOrder ==
    HotDone =>
        \A i \in 1..Len(output.stats) :
            LET ts == output.stats[i].titles IN
            /\ \A k \in 1..(Len(ts) - 1) : InTitleOrder(ts[k], ts[k + 1])
            /\ \E j \in 1..Len(UncappedStats) :
                  /\ UncappedStats[j].position = output.stats[i].position
                  /\ Len(ts) <= Len(UncappedStats[j].titles)
                  /\ ts = SubSeq(UncappedStats[j].titles, 1, Len(ts))

\* a stat cut to two titles out of three, the first weighing more than the
\* second although it was appended after it
C18_Witness ==
    /\ HotDone
    /\ \E i \in 1..Len(output.stats) :
          LET ts == output.stats[i].titles IN
          /\ Len(ts) = 2
          /\ output.stats[i].count = 3
          /\ FracLess(HotWeight(ts[2]), HotWeight(ts[1]))
          /\ \E q \in Pairs(input.results) :
                /\ q[2] = ts[2].title
                /\ ItemData(input.results, q) = Head(Head(input.results).val).val
                /\ Head(Head(input.results).val).key = ts[2].title

\* the label of a declared group
GroupLabel(group) ==
    IF group.display_name # "" THEN group.display_name ELSE group.group_key

\* C19: the stats of count_word_frequency and of count_rss_frequency stand in
\* the order of their positions when sort_by_position_first is true, and
\* otherwise by falling count, stats of equal count in the order of their
\* positions; the position of a stat is the declaration index of its group.
C19_StatOrder ==
    StatsDone =>
        /\ \A i \in 1..(Len(output.stats) - 1) :
              LET a == output.stats[i]
                  b == output.stats[i + 1]
              IN IF input.args.sort_by_position_first
                 THEN a.position < b.position
                 ELSE \/ a.count > b.count
                      \/ a.count = b.count /\ a.position < b.position
        /\ input.args.word_groups # <<>> =>
              \A i \in 1..Len(output.stats) :
                  /\ output.stats[i].position \in 0..(Len(input.args.word_groups) - 1)
                  /\ output.stats[i].word = GroupLabel(DeclaredGroup(output.stats[i]))

\* by count, a group declared later stands first
C19_Witness ==
    /\ StatsDone
    /\ ~input.args.sort_by_position_first
    /\ Len(output.stats) >= 2
    /\ output.stats[1].position > output.stats[2].position

\* by position, a group with the smaller count stands first
C19_WitnessByPosition ==
    /\ StatsDone
    /\ input.args.sort_by_position_first
    /\ Len(output.stats) >= 2
    /\ output.stats[1].count < output.stats[2].count

\* the positions of the returned stats
StatPositions == {output.stats[i].position : i \in 1..Len(output.stats)}

\* C20 as claimed: with word groups configured, count_word_frequency and
\* count_rss_frequency (given items) return one stat for each declared group.
C20_OneStatPerGroup ==
    (StatsDone /\ input.args.word_groups # <<>>
        /\ (input.op = "rss" => input.rss_items # <<>>)) =>
        /\ Len(output.stats) = Len(input.args.word_groups)
        /\ StatPositions = 0..(Len(input.args.word_groups) - 1)

\* C20 amended: with word groups configured, count_word_frequency returns one
\* stat for each declared group, a group that took nothing having count 0 and
\* no titles; count_rss_frequency returns one stat for each declared group
\* that took an item and none for the others, so that each of its stats has a
\* count of at least 1 and a title.
C20_StatsPerGroup ==
    (StatsDone /\ input.args.word_groups # <<>>) =>
        /\ Cardinality(StatPositions) = Len(output.stats)
        /\ HotDone =>
              /\ StatPositions = 0..(Len(input.args.word_groups) - 1)
              /\ \A i \in 1..Len(output.stats) :
                    output.stats[i].count = 0 => output.stats[i].titles = <<>>
        /\ RssDone =>
              /\ \A i \in 1..Len(output.stats) :
                    output.stats[i].count >= 1 /\ output.stats[i].titles # <<>>
              /\ StatPositions =
                    {C3FirstGroupBoth(input.rss_items[i].title) :
                        i \in {k \in RssKept :
                                  /\ ClassifyInput(input.rss_items[k].title) # 0
                                  /\ C3FirstGroupBoth(input.rss_items[k].title) >= 0}}

\* count_word_frequency returned a stat of count 0 beside one that counted
C20_Witness ==
    /\ HotDone
    /\ input.args.word_groups # <<>>
    /\ \E i, j \in 1..Len(output.stats) :
          output.stats[i].count = 0 /\ output.stats[j].count > 0

\* count_rss_frequency returned fewer stats than there are groups
C20_WitnessRss ==
    /\ RssDone
    /\ output.stats # <<>>
    /\ Len(output.stats) < Len(input.args.word_groups)

\* the input items an emitted RSS title came from
RssSourcesOf(t) ==
    {i \in 1..Len(input.rss_items) :
        /\ input.rss_items[i].title = t.title
        /\ input.rss_items[i].url = t.url}

\* the 1-based positions item i can take when the items of the run are ordered
\* from the most recent to the oldest (items of equal published_at in any order)
RecencyPositions(i) ==
    LET items == input.rss_items
        newer == {j \in 1..Len(items) : items[j].published_at > items[i].published_at}
        same == {j \in 1..Len(items) : items[j].published_at = items[i].published_at}
    IN (Cardinality(newer) + 1)..(Cardinality(newer) + Cardinality(same))

\* C21 as claimed: every item emitted by count_rss_frequency has exactly one
\* rank, its 1-based position in the order of the run's items from the most
\* recent to the oldest, so that the most recent item has rank 1 and an item
\* published later than another never has the larger rank.
C21_RecencyRank ==
    RssDone =>
        /\ \A e \in Emitted :
              /\ Len(EmittedAt(e).ranks) = 1
              /\ \E i \in RssSourcesOf(EmittedAt(e)) :
                    EmittedAt(e).ranks[1] \in RecencyPositions(i)
        /\ \A e, f \in Emitted :
              \A i \in RssSourcesOf(EmittedAt(e)), j \in RssSourcesOf(EmittedAt(f)) :
                  input.rss_items[i].published_at > input.rss_items[j].published_at
                      => EmittedAt(e).ranks[1] <= EmittedAt(f).ranks[1]

\* the RSS items that are the first of the run with their url
RssFirstOfUrl ==
    {i \in 1..Len(input.rss_items) :
        \A j \in 1..(i - 1) : input.rss_items[j].url # input.rss_items[i].url}

\* the RSS item is accepted and a group takes it
RssBucketed(i) ==
    /\ ClassifyInput(input.rss_items[i].title) # 0
    /\ \/ input.args.word_groups = <<>>
       \/ C3FirstGroupBoth(input.rss_items[i].title) >= 0

\* C22 as claimed: no two titles emitted by count_rss_frequency have the same
\* URL, and of the input items with one URL only the first in input order is
\* classified and counted.
C22_UrlDedupe ==
    RssDone =>
        /\ \A e, f \in Emitted : e # f => EmittedAt(e).url # EmittedAt(f).url
        /\ \A e \in Emitted : RssSourcesOf(EmittedAt(e)) \cap RssFirstOfUrl # {}
        /\ SumCounts = Cardinality({i \in RssFirstOfUrl : RssBucketed(i)})

\* C22 amended: no two titles emitted by count_rss_frequency have the same
\* non-empty URL, and of the input items with one non-empty URL only the first
\* in input order is classified and counted; items with an empty URL are never
\* deduplicated, each of them is classified and counted.
C22_UrlDedupeNonEmpty ==
    RssDone =>
        /\ \A e, f \in Emitted :
              (e # f /\ EmittedAt(e).url # "") => EmittedAt(e).url # EmittedAt(f).url
        /\ \A e \in Emitted : RssSourcesOf(EmittedAt(e)) \cap RssKept # {}
        /\ SumCounts = Cardinality({i \in RssKept : RssBucketed(i)})

\* two items of the run share a URL, both would be taken by a group, and one
\* title was emitted
C22_Witness ==
    /\ RssDone
    /\ \E i, j \in 1..Len(input.rss_items) :
          /\ i < j
          /\ input.rss_items[i].url # ""
          /\ input.rss_items[i].url = input.rss_items[j].url
          /\ RssBucketed(i) /\ RssBucketed(j)
    /\ Cardinality(Emitted) = 1

\* two items without URL were both emitted
C22_WitnessEmptyUrl ==
    /\ RssDone
    /\ \E e, f \in Emitted : e # f /\ EmittedAt(e).url = "" /\ EmittedAt(f).url = ""

RegroupDone == input.op = "regroup" /\ pc # "ready"

\* places (stat, title) of the topic stats given to the regrouping
RegroupGiven ==
    UNION {{<<i, k>> : k \in 1..Len(input.keyword_stats[i].titles)} :
              i \in 1..Len(input.keyword_stats)}
RegroupGivenAt(g) == input.keyword_stats[g[1]].titles[g[2]]

\* the emitted entry is the given title, tagged with the label of its topic
TaggedFrom(t, g) ==
    /\ t.matched_keyword = input.keyword_stats[g[1]].word
    /\ \A f \in DOMAIN RegroupGivenAt(g) : t[f] = RegroupGivenAt(g)[f]

\* no place before g, in input order, holds the same title text of the same source
FirstOfTitle(g) ==
    \A h \in RegroupGiven :
        (h[1] < g[1] \/ (h[1] = g[1] /\ h[2] < g[2])) =>
            \/ RegroupGivenAt(h).source_name # RegroupGivenAt(g).source_name
            \/ RegroupGivenAt(h).title # RegroupGivenAt(g).title

\* C23: convert_keyword_stats_to_platform_stats puts every title of the topic
\* stats into the bucket of its source name, tagged with the label of its
\* topic; within a bucket no title text occurs twice and the entry kept is the
\* one of the earliest topic in input order; the count of a bucket is the
\* length of its title list, the buckets come by descending count and their
\* percentage is 0.
C23_Regroup ==
    RegroupDone =>
        /\ \A e \in Emitted :
              /\ EmittedAt(e).source_name = output.stats[e[1]].word
              /\ \E g \in RegroupGiven : FirstOfTitle(g) /\ TaggedFrom(EmittedAt(e), g)
        /\ \A g \in RegroupGiven :
              \E e \in Emitted :
                  /\ EmittedAt(e).source_name = RegroupGivenAt(g).source_name
                  /\ EmittedAt(e).title = RegroupGivenAt(g).title
        /\ \A e, f \in Emitted :
              (e # f /\ e[1] = f[1]) => EmittedAt(e).title # EmittedAt(f).title
        /\ \A i, j \in 1..Len(output.stats) : i # j => output.stats[i].word # output.stats[j].word
        /\ \A i \in 1..Len(output.stats) :
              /\ output.stats[i].count = Len(output.stats[i].titles)
              /\ output.stats[i].percentage = 0
              /\ i > 1 => output.stats[i - 1].count >= output.stats[i].count

\* a title text of one source was given in two topics, with different data,
\* and the regrouping returned two buckets of different counts
C23_Witness ==
    /\ RegroupDone
    /\ \E g, h \in RegroupGiven :
          /\ g[1] < h[1]
          /\ RegroupGivenAt(g).source_name = RegroupGivenAt(h).source_name
          /\ RegroupGivenAt(g).title = RegroupGivenAt(h).title
          /\ RegroupGivenAt(g) # RegroupGivenAt(h)
    /\ Len(output.stats) = 2
    /\ output.stats[1].count > output.stats[2].count
    /\ input.keyword_stats[1].titles # <<>>
    /\ output.stats[1].word # input.keyword_stats[1].titles[1].source_name

FetchDone == input.op = "fetch" /\ pc = "once"

\* what fetch_data has done so far is within the claim: at most max_retries + 1
\* requests, none after a response that succeeded, and once it has returned,
\* the text of the successful response or None, with the id and the alias
FetchWithinClaim ==
    input.op = "fetch" =>
        /\ Len(responses) <= input.max_retries + 1
        /\ \A k \in 1..(Len(responses) - 1) : responses[k].kind # "ok"
        /\ pc = "once" =>
              /\ responses # <<>>
              /\ output.id_value = input.id_info.id
              /\ output.alias = IF input.id_info.tuple THEN input.id_info.alias
                                ELSE input.id_info.id
              /\ output.data_text =
                    IF responses[Len(responses)].kind = "ok"
                    THEN <<responses[Len(responses)].text>>
                    ELSE <<>>

\* C24: fetch_data issues at most max_retries + 1 requests for one source,
\* stops at the first successful response and returns its text with the id and
\* the alias, returns (None, id, alias) when every attempt fails, and returns
\* in the end whatever the requests come to.
C24_FetchData == [](FetchWithinClaim) /\ ((input.op = "fetch") ~> FetchDone)

\* fetch_data returned the text of the third request after two failures
C24_Witness ==
    /\ FetchDone
    /\ input.max_retries = 2
    /\ Len(responses) = 3
    /\ responses[3].kind = "ok"
    /\ output.data_text = <<responses[3].text>>

\* fetch_data returned None after max_retries + 1 failed requests
C24_WitnessExhausted ==
    /\ FetchDone
    /\ Len(responses) = input.max_retries + 1
    /\ Len(responses) > 1
    /\ output.data_text = <<>>

CrawlDone == input.op = "crawl" /\ pc = "once"

\* the item list the snapshot of a source was built from: the one of the last
\* answer with data for this id
CrawlItemsOf(source_id) ==
    LET with == {i \in 1..Len(input.ids_list) :
                    input.ids_list[i].id = source_id /\ input.answers[i] # <<>>}
        last == CHOOSE i \in with : \A j \in with : j <= i
    IN input.answers[last][1].items

\* the title of an item as the snapshot spells it: without the blanks around it
ShownTitle(item) ==
    LET from == {i \in 1..Len(item.title) : item.title[i] # " "}
    IN IF from = {} THEN <<>>
       ELSE SubSeq(item.title, CHOOSE i \in from : \A j \in from : i <= j,
                   CHOOSE i \in from : \A j \in from : j <= i)

\* the positions among the first n items where the title occurs
OccurrencesIn(items, n, title) ==
    {k \in 1..n : items[k].dict /\ ShownTitle(items[k]) = title}

\* the ranks are these positions, in increasing order, one entry per position
RanksAre(ranks, positions) ==
    /\ Len(ranks) = Cardinality(positions)
    /\ {ranks[k] : k \in 1..Len(ranks)} = positions
    /\ \A k \in 1..(Len(ranks) - 1) : ranks[k] < ranks[k + 1]

\* the number of items before the first one that is no dict
WellFormedPrefix(items) ==
    LET bad == {k \in 1..Len(items) : ~items[k].dict}
    IN IF bad = {} THEN Len(items) ELSE (CHOOSE k \in bad : \A j \in bad : k <= j) - 1

\* no title has two entries in the snapshot, and the ranks of an entry are the
\* positions of its title among the first n items
SnapshotOf(snapshot, items, n) ==
    /\ \A i, j \in 1..Len(snapshot) : i # j => snapshot[i].key # snapshot[j].key
    /\ \A i \in 1..Len(snapshot) :
          RanksAre(snapshot[i].val.ranks, OccurrencesIn(items, n, snapshot[i].key))

\* C26 as claimed: in the snapshot built by crawl_websites the ranks of a title
\* are the 1-based positions of its occurrences in the item list the source
\* returned, in increasing order, one per occurrence, and a title has one entry.
C26_RanksArePositions ==
    CrawlDone =>
        \A s \in 1..Len(output.results) :
            LET items == CrawlItemsOf(output.results[s].key)
            IN SnapshotOf(output.results[s].val, items, Len(items))

\* C26 over the items that precede the first item that is no JSON object (all
\* the items when there is none): the loop stops at such an item and the
\* snapshot keeps what was built until then, an entry for each title with text
\* met so far. This is what the code does; for a list of JSON objects it is
\* the claim.
C26_RanksArePositionsParsed ==
    CrawlDone =>
        \A s \in 1..Len(output.results) :
            LET items == CrawlItemsOf(output.results[s].key)
                n == WellFormedPrefix(items)
            IN /\ SnapshotOf(output.results[s].val, items, n)
               /\ Keys(output.results[s].val) =
                     {ShownTitle(items[k]) : k \in {j \in 1..n : items[j].dict}} \ {<<>>}

\* a title of the snapshot has two ranks that are not neighbours
C26_Witness ==
    /\ CrawlDone
    /\ \E s \in 1..Len(output.results) :
          \E i \in 1..Len(output.results[s].val) :
              LET ranks == output.results[s].val[i].val.ranks
              IN Len(ranks) = 2 /\ ranks[2] > ranks[1] + 1

\* C30 as claimed: after crawl_websites every requested source id is in exactly
\* one of results and failed_ids.
C30_ResultsOrFailed ==
    CrawlDone =>
        \A i \in 1..Len(input.ids_list) :
            LET id == input.ids_list[i].id
                failed == \E k \in 1..Len(output.failed_ids) : output.failed_ids[k] = id
            IN HasKey(output.results, id) # failed

\* p, in hundredths of a percent, is count / total * 100 rounded to two places
IsPercentageOf(p, count, total) ==
    IF total > 0
    THEN /\ 2 * (p * total - count * 10000) <= total
         /\ 2 * (count * 10000 - p * total) <= total
    ELSE p = 0

\* C27: in every stat of count_word_frequency the count is the number of
\* titles matched to the group before the cap is applied (the count and the
\* number of titles the same call returns for the group when nothing is
\* capped); the stat has min(count, cap) titles when its cap is positive and
\* count titles otherwise; and the percentage is that count over the total
\* considered.
C27_CountBeforeCap ==
    HotDone =>
        LET uncapped == UncappedStats IN
        \A i \in 1..Len(output.stats) :
            LET stat == output.stats[i] IN
            /\ \E j \in 1..Len(uncapped) :
                  /\ uncapped[j].position = stat.position
                  /\ uncapped[j].count = stat.count
                  /\ Len(uncapped[j].titles) = stat.count
            /\ Len(stat.titles) = IF StatCap(stat) > 0 THEN Min2(stat.count, StatCap(stat))
                                  ELSE stat.count
            /\ IsPercentageOf(stat.percentage, stat.count, output.total_titles)

\* a stat of count_word_frequency counted more titles than it shows, and its
\* percentage is not 0
C27_Witness ==
    /\ HotDone
    /\ \E i \in 1..Len(output.stats) :
          /\ output.stats[i].count > Len(output.stats[i].titles)
          /\ output.stats[i].titles # <<>>
          /\ output.stats[i].percentage > 0

\* ------------------------------------------------------------------------
\* C25, C28: the deduplication of what is about to be pushed
\* ------------------------------------------------------------------------
DedupReportDone == input.op = "dedup_report" /\ pc = "once"
DedupRssDone == input.op = "dedup_rss" /\ pc = "once"

RECURSIVE FlatTitles(_)
FlatTitles(stats) ==
    IF stats = <<>> THEN <<>> ELSE Head(stats).titles \o FlatTitles(Tail(stats))

RECURSIVE FlatNewList(_)
FlatNewList(l) ==
    IF l = <<>> THEN <<>>
    ELSE [i \in DOMAIN Head(l).titles |->
             [title |-> Head(l).titles[i].title, url |-> Head(l).titles[i].url,
              source_id |-> Head(l).source_id]] \o FlatNewList(Tail(l))

RECURSIVE FlatNewDict(_)
FlatNewDict(d) ==
    IF d = <<>> THEN <<>>
    ELSE [i \in DOMAIN Head(d).val |->
             [title |-> Head(d).val[i].key, url |-> Head(d).val[i].val.url,
              source_id |-> Head(d).key]] \o FlatNewDict(Tail(d))

\* the items of a new_titles value, each with its source
NewTitleItems(new_titles) ==
    IF new_titles = <<>> THEN <<>>
    ELSE IF new_titles[1].form = "list" THEN FlatNewList(new_titles[1].val)
    ELSE FlatNewDict(new_titles[1].val)

HotHash(t) == get_content_hash(input.dedup_config, t.url, t.title, t.source_id)
RssHash(t) == get_content_hash(input.dedup_config, t.url, t.title, t.feed_id)
Unpushed(h) == h \notin input.pushed

Occurs(s, x) == \E i \in DOMAIN s : s[i] = x
HashCount(hashes, h) == Cardinality({i \in DOMAIN hashes : hashes[i] = h})
HashesOf(items, Hash(_)) == [i \in DOMAIN items |-> Hash(items[i])]

\* one record for each kept item: as many records of a hash as kept items of
\* it, each with the title and url of such an item
RecordsAreOf(records, kept, Hash(_)) ==
    /\ Len(records) = Len(kept)
    /\ \A k \in DOMAIN records :
           /\ HashCount(HashesOf(kept, Hash), records[k].hash)
                  = Cardinality({j \in DOMAIN records : records[j].hash = records[k].hash})
           /\ \E i \in DOMAIN kept :
                  /\ Hash(kept[i]) = records[k].hash
                  /\ kept[i].title = records[k].title
                  /\ kept[i].url = records[k].url

\* exactly the items of `given` that are not pushed, up to their order
KeepsExactlyUnpushed(given, kept, Hash(_)) ==
    /\ \A j \in DOMAIN kept : Unpushed(Hash(kept[j])) /\ Occurs(given, kept[j])
    /\ \A i \in DOMAIN given : Unpushed(Hash(given[i])) => Occurs(kept, given[i])

LastOfHash(given, Hash(_), h) ==
    given[CHOOSE i \in DOMAIN given :
              /\ Hash(given[i]) = h
              /\ \A i2 \in DOMAIN given : i2 > i => Hash(given[i2]) # h]

\* of the items of `given` that are not pushed, the last one of each hash
KeepsLastOfUnpushedHash(given, kept, Hash(_)) ==
    /\ \A j1, j2 \in DOMAIN kept : Hash(kept[j1]) = Hash(kept[j2]) => j1 = j2
    /\ Range(kept) = {LastOfHash(given, Hash, h) :
                          h \in {Hash(given[i]) : i \in DOMAIN given} \ input.pushed}

DedupDisabledLaw ==
    /\ (DedupReportDone /\ ~input.dedup_config.enabled) =>
           output = [filtered_data |-> input.report_data, items_to_record |-> <<>>]
    /\ (DedupRssDone /\ ~input.dedup_config.enabled) =>
           output = [filtered_items |-> input.rss_items, items_to_record |-> <<>>]

\* C25 (as claimed): with deduplication enabled both functions keep exactly
\* the input items whose content hash is not pushed and record each kept item
\* once; with deduplication disabled they return the input and no record.
C25_KeepsExactlyUnpushed ==
    /\ DedupDisabledLaw
    /\ (DedupReportDone /\ input.dedup_config.enabled) =>
           LET given == FlatTitles(input.report_data.stats)
               kept == FlatTitles(output.filtered_data.stats)
               given_new == NewTitleItems(input.report_data.new_titles)
               kept_new == NewTitleItems(output.filtered_data.new_titles)
           IN /\ KeepsExactlyUnpushed(given, kept, HotHash)
              /\ KeepsExactlyUnpushed(given_new, kept_new, HotHash)
              /\ RecordsAreOf(output.items_to_record, kept \o kept_new, HotHash)
    /\ (DedupRssDone /\ input.dedup_config.enabled) =>
           /\ KeepsExactlyUnpushed(input.rss_items, output.filtered_items, RssHash)
           /\ RecordsAreOf(output.items_to_record, output.filtered_items, RssHash)

\* C25 (amended): with deduplication enabled the stats, the RSS items and a
\* dict-form new_titles keep, for each content hash that is not pushed, the
\* last input item of that hash; a list-form new_titles keeps every item that
\* is not pushed; new_titles is filtered only when dedup_new_titles is on, and
\* is returned as given otherwise; one record is made for each item kept by a
\* filtered section. With deduplication disabled they return the input and no
\* record.
C25_KeepsLastOfUnpushedHash ==
    /\ DedupDisabledLaw
    /\ (DedupReportDone /\ input.dedup_config.enabled) =>
           LET given == FlatTitles(input.report_data.stats)
               kept == FlatTitles(output.filtered_data.stats)
               nt == input.report_data.new_titles
               given_new == NewTitleItems(nt)
               kept_new == NewTitleItems(output.filtered_data.new_titles)
               filters_new == input.dedup_config.dedup_new_titles
           IN /\ KeepsLastOfUnpushedHash(given, kept, HotHash)
              /\ IF ~filters_new \/ nt = <<>>
                 THEN output.filtered_data.new_titles = nt
                 ELSE IF nt[1].form = "list"
                 THEN kept_new = SelectSeq(given_new, LAMBDA t : Unpushed(HotHash(t)))
                 ELSE KeepsLastOfUnpushedHash(given_new, kept_new, HotHash)
              /\ RecordsAreOf(output.items_to_record,
                              kept \o (IF filters_new THEN kept_new ELSE <<>>), HotHash)
    /\ (DedupRssDone /\ input.dedup_config.enabled) =>
           /\ KeepsLastOfUnpushedHash(input.rss_items, output.filtered_items, RssHash)
           /\ RecordsAreOf(output.items_to_record, output.filtered_items, RssHash)

\* some items are filtered out as pushed, others are kept and recorded
C25_Witness ==
    /\ DedupReportDone
    /\ input.dedup_config.enabled
    /\ Len(FlatTitles(output.filtered_data.stats)) > 0
    /\ Len(FlatTitles(output.filtered_data.stats)) < Len(FlatTitles(input.report_data.stats))
    /\ \E i \in DOMAIN FlatTitles(input.report_data.stats) :
           ~Unpushed(HotHash(FlatTitles(input.report_data.stats)[i]))
    /\ Len(output.items_to_record) > 0

C25_WitnessRss ==
    /\ DedupRssDone
    /\ input.dedup_config.enabled
    /\ output.filtered_items # <<>>
    /\ Len(output.filtered_items) < Len(input.rss_items)
    /\ \E i \in DOMAIN input.rss_items : ~Unpushed(RssHash(input.rss_items[i]))

\* C28: the filtered stats hold at most one entry for each stat of the
\* report, every entry has at least one title, and its count is the length of
\* its title list.
C28_FilteredStats ==
    (DedupReportDone /\ input.dedup_config.enabled) =>
        LET filtered_stats == output.filtered_data.stats IN
        /\ \A i, j \in DOMAIN filtered_stats :
               filtered_stats[i].word = filtered_stats[j].word => i = j
        /\ \A i \in DOMAIN filtered_stats :
               /\ Len(filtered_stats[i].titles) >= 1
               /\ filtered_stats[i].count = Len(filtered_stats[i].titles)

\* ------------------------------------------------------------------------
\* C29: nothing is recorded unless a channel has delivered
\* ------------------------------------------------------------------------
NotifyDone == input.op = "notify" /\ pc = "once"

IsRecording(call) == call.fn \in {"record_pushed_news", "record_push"}
IsDispatch(call) == call.fn = "dispatch_all"

\* the call returned, and with a channel that succeeded
SomeChannelOk(call) ==
    /\ IsDispatch(call)
    /\ ~call.returned.raised
    /\ call.returned.results # <<>>
    /\ \E i \in DOMAIN call.returned.results[1] : call.returned.results[1][i].val = TRUE

NothingRecorded == \A k \in DOMAIN output.calls : ~IsRecording(output.calls[k])
NotDispatched == \A k \in DOMAIN output.calls : ~IsDispatch(output.calls[k])

\* the reasons for which the notification is skipped
NotifyDisabled == ~input.cfg.ENABLE_NOTIFICATION
NoChannel ==
    LET cfg == input.cfg IN
    /\ cfg.FEISHU_WEBHOOK_URL = "" /\ cfg.DINGTALK_WEBHOOK_URL = ""
    /\ cfg.WEWORK_WEBHOOK_URL = "" /\ cfg.BARK_URL = "" /\ cfg.SLACK_WEBHOOK_URL = ""
    /\ (cfg.TELEGRAM_BOT_TOKEN = "" \/ cfg.TELEGRAM_CHAT_ID = "")
    /\ (cfg.EMAIL_FROM = "" \/ cfg.EMAIL_PASSWORD = "" \/ cfg.EMAIL_TO = "")
    /\ (cfg.NTFY_SERVER_URL = "" \/ cfg.NTFY_TOPIC = "")
NoContent ==
    /\ \A i \in DOMAIN input.args.stats : input.args.stats[i].count = 0
    /\ input.args.new_titles = <<>>
    /\ input.args.rss_items = <<>>
OutsideWindow == input.cfg.PUSH_WINDOW.ENABLED /\ ~input.world.in_time_range
PushedToday ==
    /\ input.cfg.PUSH_WINDOW.ENABLED
    /\ input.cfg.PUSH_WINDOW.ONCE_PER_DAY
    /\ input.world.has_pushed_today
EveryItemPushed ==
    /\ input.cfg.deduplication.enabled
    /\ \A i \in DOMAIN input.world.report_data.stats :
           \A j \in DOMAIN input.world.report_data.stats[i].titles :
               LET t == input.world.report_data.stats[i].titles[j] IN
               get_content_hash(input.cfg.deduplication, t.url, t.title, t.source_id)
                   \in input.world.pushed
    /\ \A i \in DOMAIN input.args.rss_raw_items :
           LET t == input.args.rss_raw_items[i] IN
           get_content_hash(input.cfg.deduplication, t.url, t.title, t.feed_id)
               \in input.world.pushed
SkipReason ==
    NotifyDisabled \/ NoChannel \/ NoContent \/ OutsideWindow \/ PushedToday \/ EveryItemPushed

\* C29: a record of a pushed item or of the day's push is written only after
\* dispatch_all has returned with a channel that succeeded; when there is a
\* reason to skip, dispatch_all is not called; then, and when dispatch_all
\* raises or reports no success, nothing is recorded and the result is False.
C29_RecordOnlyAfterDelivery ==
    NotifyDone =>
        /\ \A k \in DOMAIN output.calls :
               IsRecording(output.calls[k]) =>
                   \E j \in 1..(k - 1) : SomeChannelOk(output.calls[j])
        /\ SkipReason => NotDispatched /\ NothingRecorded /\ output.result = FALSE
        /\ (\E j \in DOMAIN output.calls :
                IsDispatch(output.calls[j]) /\ ~SomeChannelOk(output.calls[j]))
               => NothingRecorded /\ output.result = FALSE

\* a push that went out: the items and the day's push are recorded after it
C29_Witness ==
    /\ NotifyDone
    /\ output.result = TRUE
    /\ Len(output.calls) >= 3
    /\ SomeChannelOk(output.calls[1])
    /\ output.calls[2].fn = "record_pushed_news"
    /\ output.calls[Len(output.calls)].fn = "record_push"

\* a dispatch that reached no channel, and one that raised
C29_WitnessNoSuccess ==
    /\ NotifyDone
    /\ output.result = FALSE
    /\ output.calls # <<>>
    /\ ~output.calls[1].returned.raised
    /\ ~SomeChannelOk(output.calls[1])

\* every item is pushed already although there is content: skipped
C29_WitnessAllPushed ==
    /\ NotifyDone
    /\ EveryItemPushed
    /\ ~(NotifyDisabled \/ NoChannel \/ NoContent \/ OutsideWindow \/ PushedToday)
    /\ output = Skipped

====
